---- MODULE Spec2Model ----
(***************************************************************************)
(* Model of the three variants of the FreeSWITCH <-> gateway audio relay:  *)
(*   variant 1  mod_nova_sonic.c     media bug + send/recv threads, raw    *)
(*   variant 2  mod_nova_sonic_v2.c  tagged receiver, send/recv threads    *)
(*   variant 3  mod_nova_sonic_v3.c  length-prefix heuristic, recv thread, *)
(*                                   direct frame loop                     *)
(* One session is modelled: the application thread ("main"), the sender    *)
(* and receiver workers, and the environment (gateway byte stream, TCP     *)
(* delivery, caller frames, caller hangup).                                *)
(*                                                                         *)
(* Environment conventions.  recv is blocking: it returns as soon as one   *)
(* byte is buffered (min(requested, buffered) bytes), 0 once the peer has  *)
(* closed and nothing is buffered, and -1 after a connection error or      *)
(* after the descriptor was closed locally.  No variant sets O_NONBLOCK or *)
(* SO_RCVTIMEO, so recv never fails with EAGAIN.  send fails after a       *)
(* connection error or a local close, and any send may be the one that     *)
(* finds the connection broken.                                            *)
(*                                                                         *)
(* Closing the descriptor makes a recv that is blocked on it return -1, as   *)
(* the teardown code expects ("Close socket to trigger thread exit").      *)
(*                                                                         *)
(* The network acts (bytes arrive, the peer closes, the connection breaks) *)
(* only while the receiver is blocked in recv with nothing buffered: what  *)
(* a recv returns depends only on what is buffered when it is called, so   *)
(* every sequence of recv results is still produced.  Likewise the caller  *)
(* hangs up only where the application thread is about to test the         *)
(* channel, the one place that reads it.                                   *)
(***************************************************************************)
EXTENDS Integers, Sequences, FiniteSets, TLC

(***************************************************************************)
(* Bounds of the model                                                     *)
(***************************************************************************)
MaxCallerFrames == 2

(***************************************************************************)
(* Program constants                                                       *)
(***************************************************************************)
V1_CHUNK == 320
V2_FRAME == 640
V3_FRAME == 320
CTRL_BUF == 256
CTL_MAX == 1024
QUEUE_CAP == 100
IN_START_V1 == 65536
IN_START_V2 == 16384
OUT_MAX == 32768
PCMU_LEN == 160
TAG_AUDIO == 1
TAG_CTRL == 2
NEWLINE == 10

(***************************************************************************)
(* Byte strings                                                            *)
(***************************************************************************)
\* "hangup"
HANGUP == <<104, 97, 110, 103, 117, 112>>
\* "type":"hangup"   (with the quotes)
TYPE_HANGUP == <<34, 116, 121, 112, 101, 34, 58, 34>> \o HANGUP \o <<34>>
\* {"type":"hangup"}
JSON_HANGUP == <<123>> \o TYPE_HANGUP \o <<125>>
\* "ping"
PING == <<112, 105, 110, 103>>

\* the C string held in a buffer: the bytes before the first NUL
CStr(buf) ==
    IF \E i \in 1..Len(buf) : buf[i] = 0
    THEN SubSeq(buf, 1, (CHOOSE i \in 1..Len(buf) :
                            buf[i] = 0 /\ \A j \in 1..(i - 1) : buf[j] # 0) - 1)
    ELSE buf

\* strstr(buf, pat) != NULL
StrStr(buf, pat) ==
    LET s == CStr(buf)
    IN  \E i \in 1..(Len(s) - Len(pat) + 1) : SubSeq(s, i, i + Len(pat) - 1) = pat

\* the uint32_t the receiver builds from four header bytes.  Values of 2^31 and
\* more (first byte 0x80 and up) are only ever compared with 0, 320 and 1024;
\* they are all held as 2^31 - 1, the largest integer the checker has.
BE32(h) ==
    IF h[1] < 128 THEN h[1] * 16777216 + h[2] * 65536 + h[3] * 256 + h[4]
    ELSE 2147483647

\* the four big-endian bytes of a length
Prefix(n) == << (n \div 16777216) % 256, (n \div 65536) % 256, (n \div 256) % 256, n % 256 >>

(***************************************************************************)
(* What the gateway writes: frames as byte strings                         *)
(***************************************************************************)
\* an audio payload of n bytes whose first bytes are h (the rest is 0x55)
Payload(h, n) == [i \in 1..n |-> IF i <= Len(h) THEN h[i] ELSE 85]

RECURSIVE Flatten(_)
Flatten(fs) == IF fs = <<>> THEN <<>> ELSE Head(fs) \o Flatten(Tail(fs))

RECURSIVE Starts(_, _)
\* the offsets (bytes before) at which the frames of fs begin, and the end
Starts(fs, base) ==
    IF fs = <<>> THEN {base}
    ELSE {base} \cup Starts(Tail(fs), base + Len(Head(fs)))


\* tagged sub-mode (variant 2's receiver): tag, payload / tag, line, newline
Aud2(h) == <<TAG_AUDIO>> \o Payload(h, V2_FRAME)
Ctl2(text) == <<TAG_CTRL>> \o text \o <<NEWLINE>>
\* length-prefixed sub-mode (variant 3's receiver): raw payload / prefix, text
Aud3(h) == Payload(h, V3_FRAME)
Ctl3(text) == Prefix(Len(text)) \o text

\* The streams a gateway may write, per variant; a stream is a list of frames.
Scenarios ==
    << \* variant 1: raw PCM16
       << << Payload(<<>>, V1_CHUNK) >> >>,
       \* variant 2: unknown tag, control, audio, hangup, audio;
       \* a control line of 256 bytes (one more than ctrl_buf holds) whose last
       \* byte is 0x01, then audio
       << << <<3>>, Ctl2(PING), Aud2(<<>>), Ctl2(HANGUP), Aud2(<<>>) >>,
          << Ctl2(Payload(<<>>, CTRL_BUF - 1) \o <<TAG_AUDIO>>), Aud2(<<>>), Aud2(<<>>) >> >>,
       \* variant 3; streams 4 and 5 are the hangup frame 00 00 00 14 followed
       \* by the 17 bytes {"type":"hangup"}, alone and with audio after it
       << << Ctl3(JSON_HANGUP), Aud3(<<>>) >>,
          << Aud3(<<>>), Ctl3(PING), Aud3(Prefix(V3_FRAME)), Aud3(Prefix(0)),
             Aud3(Prefix(CTL_MAX)) >>,
          << Aud3(Prefix(20)), Aud3(<<>>) >>,
          << Prefix(20) \o JSON_HANGUP >>,
          << Prefix(20) \o JSON_HANGUP, Aud3(<<>>) >> >> >>

\* variant 2 under load: a burst of audio frames, one more than the playback
\* queue holds (stream 0; sessions enter it at InitQueueLoaded)
BurstStream == [i \in 1..(QUEUE_CAP + 1) |-> Aud2(<<>>)]
BurstWire == Flatten(BurstStream)
BurstStarts == Starts(BurstStream, 0)

\* variant 3 under load: a burst of audio frames, one more than fit into the
\* outbound buffer (stream 0; sessions enter it at InitOutboundLoaded)
BurstStream3 == [i \in 1..((OUT_MAX \div V3_FRAME) + 1) |-> Aud3(<<>>)]
BurstWire3 == Flatten(BurstStream3)
BurstStarts3 == Starts(BurstStream3, 0)

WireTab == [v \in 1..3 |-> [k \in 1..Len(Scenarios[v]) |-> Flatten(Scenarios[v][k])]]
StartTab == [v \in 1..3 |-> [k \in 1..Len(Scenarios[v]) |-> Starts(Scenarios[v][k], 0)]]

\* offsets inside a frame at which TCP may cut the stream
CutOffsets == {0, 2, 7, 100}

VARIABLES
    variant,        \* which module is loaded: 1, 2 or 3
    scn,            \* the stream the gateway writes (index into Scenarios[variant])
    callerNum,      \* caller_id_number channel variable: "none" when unset
    mpc,            \* application thread: position
    spc,            \* sender worker: position ("none" before it is created)
    rpc,            \* receiver worker: position
    running,        \* ctx->running
    fd,             \* ctx->gateway_socket / ctx->sock_fd: 0 unset, -1, or 5
    sockState,      \* the descriptor: "none", "open", "closed"
    opens,          \* socket() calls that succeeded
    closes,         \* close() calls on the descriptor
    connects,       \* connect() calls
    tx,             \* what was handed to send(), in order
    net,            \* the connection: "up", "eof" (peer closed), "err" (reset)
    arrived,        \* bytes of the stream in the socket's receive buffer or consumed
    rpos,           \* bytes consumed by recv
    got,            \* receiver: bytes of the current audio frame / control line read
    fstart,         \* receiver: offset where the current frame began
    msgLen,         \* receiver (v3): msg_length
    outq,           \* outbound buffer / playback queue: <<offset, length>> pieces
    played,         \* pieces written to the caller, in order (v1: as a byte stream)
    inOcc,          \* inbound buffer: bytes in use
    inMutex,        \* holder of the inbound mutex: "free", "sender", "media"
    outMutex,       \* holder of the outbound mutex: "free", "receiver", "media"
    sWake,          \* the sender, blocked in cond_wait, has been signalled
    bytesRead,      \* sender: bytes_read
    chanReady,      \* switch_channel_ready(channel)
    hangups,        \* switch_channel_hangup calls made by the receiver
    callerFrames,   \* frames the caller has produced since Init or the loaded state
    mediaReady,     \* v3: media_ready
    datalen,        \* v3: read_frame->datalen of the latest read (0: no frame)
    bugAttached,    \* v1: the media bug is attached
    inBuf,          \* inbound buffer: "none", "alive", "destroyed"
    outBuf,         \* outbound buffer / queue: "none", "alive", "destroyed"
    pool,           \* memory pool: "none", "alive", "destroyed"
    uaf,            \* a worker ran on the context after the pool was destroyed
    initResult,     \* what setup reported: "none", "ok", "connfail", "hsfail"
    joins,          \* v1: switch_thread_join calls made
    cleanups,       \* v1: calls of nova_session_cleanup that have returned
    lastRecv,       \* result of the receiver's latest recv: "none", "data", "eof", "err"
    cpc,            \* codec: "idle", or how far a value has gone through the codec
    orig,           \* codec: the value the codec was given (a sample or a code word)
    pcm,            \* codec: int16_t sample (given, or result of ulaw2linear)
    ulaw,           \* codec: uint8_t code word (given, or result of linear2ulaw)
    ulawFrame,      \* codec: the frame given to ulaw_to_pcm16 (bytes)
    pcmFrame        \* codec: int16_t pcm16_buf[160] as ulaw_to_pcm16 filled it

netVars == <<net, arrived>>
rxVars == <<rpos, got, fstart, msgLen, lastRecv>>
outVars == <<outq, played>>
inVars == <<inOcc, inMutex, sWake, bytesRead>>
sockVars == <<fd, sockState, opens, closes, connects>>
chanVars == <<chanReady, hangups, callerFrames, mediaReady, datalen, bugAttached>>
resVars == <<inBuf, outBuf, pool, initResult, joins, cleanups>>
cfgVars == <<variant, scn, callerNum>>
codecVars == <<cpc, orig, pcm, ulaw, ulawFrame, pcmFrame>>
vars == <<cfgVars, mpc, spc, rpc, running, sockVars, tx, netVars, rxVars, outVars,
          inVars, outMutex, chanVars, resVars, uaf, codecVars>>

Wire == IF scn = 0 THEN (IF variant = 2 THEN BurstWire ELSE BurstWire3)
        ELSE WireTab[variant][scn]
WireLen == Len(Wire)
FrameStarts == IF scn = 0 THEN (IF variant = 2 THEN BurstStarts ELSE BurstStarts3)
               ELSE StartTab[variant][scn]
CutPoints == {s + d : s \in FrameStarts, d \in CutOffsets} \cap 0..WireLen

\* the codec has been given nothing
CodecIdle ==
    /\ cpc = "idle" /\ orig = 0 /\ pcm = 0 /\ ulaw = 0
    /\ ulawFrame = <<>> /\ pcmFrame = <<>>

Init ==
    /\ variant \in 1..3
    /\ scn \in 1..Len(Scenarios[variant])
    /\ callerNum \in (IF scn = 1 THEN {"none", "5551234567"} ELSE {"5551234567"})
    /\ mpc = "m_start" /\ spc = "none" /\ rpc = "none"
    /\ running = FALSE
    /\ fd = 0 /\ sockState = "none" /\ opens = 0 /\ closes = 0 /\ connects = 0
    /\ tx = <<>>
    /\ net = "up" /\ arrived = 0
    /\ rpos = 0 /\ got = 0 /\ fstart = 0 /\ msgLen = 0 /\ lastRecv = "none"
    /\ outq = <<>> /\ played = <<>>
    /\ inOcc = 0 /\ inMutex = "free" /\ sWake = FALSE /\ bytesRead = 0
    /\ chanReady = TRUE /\ hangups = 0 /\ callerFrames = 0 /\ datalen = 0
    /\ mediaReady = FALSE /\ bugAttached = FALSE
    /\ inBuf = "none" /\ outBuf = "none" /\ pool = "none" /\ initResult = "none"
    /\ joins = 0 /\ cleanups = 0
    /\ uaf = FALSE /\ outMutex = "free"
    /\ CodecIdle


Min(a, b) == IF a < b THEN a ELSE b

(***************************************************************************)
(* Session state of the spec's state machine, read off the application     *)
(* thread's position                                                       *)
(***************************************************************************)
SessionState ==
    CASE mpc = "m_start" -> "Idle"
      [] mpc = "m_connect" -> "Connecting"
      [] mpc = "m_handshake" -> "Handshaking"
      [] mpc \in {"m_spawn", "m2_spawn_s", "m1_bug", "m_loop", "m2_read", "m2_pop",
                  "m3_read", "m3_write"} -> "Streaming"
      [] mpc \in {"m_initfail", "m1_bugrm", "m_td_flag", "m2_td_bcast", "m_td_close",
                  "m1_join_s", "m1_join_r", "m2_td_drain", "m_td_bufs", "m_td_pool"}
            -> "Draining"
      [] OTHER -> "Closed"

(***************************************************************************)
(* The socket as the process sees it                                       *)
(***************************************************************************)
\* the results send() may have: it fails on a closed descriptor or a broken
\* connection, and may find the connection broken
SendResults == IF sockState = "open" /\ net # "err" THEN {TRUE, FALSE} ELSE {FALSE}
\* the connection after a send with result ok
NetAfterSend(ok) == IF ~ok /\ sockState = "open" THEN "err" ELSE net
\* a blocking recv() returns now
CanRecv == sockState # "open" \/ net # "up" \/ arrived > rpos
\* its result for a request of req bytes: -1, 0, or the bytes handed over
RecvResult(req) ==
    IF sockState # "open" \/ net = "err" THEN -1
    ELSE IF arrived > rpos THEN Min(req, arrived - rpos)
    ELSE 0
RecvKind(r) == IF r < 0 THEN "err" ELSE IF r = 0 THEN "eof" ELSE "data"

\* caller field of the handshake
CallerV1 == IF callerNum = "none" THEN "Unknown" ELSE callerNum
CallerV2 == IF callerNum = "none" THEN "unknown" ELSE callerNum
CallerV3 == IF callerNum = "none" THEN "Unknown" ELSE callerNum
CallerField == CASE variant = 1 -> CallerV1 [] variant = 2 -> CallerV2 [] OTHER -> CallerV3

\* one call of send: len is the byte count handed to send (audio), tagged says
\* whether a frame tag byte is written in front of the payload; every
\* variant hands its PCM buffer to send as it is
HsRecord(ok) == [kind |-> "hs", len |-> 0, caller |-> CallerField, ok |-> ok, tagged |-> FALSE]
AudioRecord(n, ok) ==
    [kind |-> "audio", len |-> n, caller |-> "", ok |-> ok, tagged |-> FALSE]

(***************************************************************************)
(* Application thread: setup                                               *)
(***************************************************************************)
\* pool and context creation (v3: also answering the call and audio_stream_init)
SetupOutcomes == {"ok", "poolfail"} \cup (IF variant = 3 THEN {"answerfail", "streamfail"} ELSE {})

MStart ==
    /\ mpc = "m_start"
    /\ \E o \in SetupOutcomes :
         \/ /\ o = "poolfail"
            /\ mpc' = "m_done"
            /\ UNCHANGED <<running, fd, pool, inBuf, outBuf>>
         \/ /\ o = "ok"
            /\ mpc' = "m_connect"
            /\ pool' = "alive"
            /\ running' = (variant # 1)
            /\ fd' = IF variant = 1 THEN 0 ELSE -1
            /\ inBuf' = IF variant = 2 THEN "alive" ELSE inBuf
            /\ outBuf' = IF variant = 1 THEN outBuf ELSE "alive"
         \/ /\ o \in {"answerfail", "streamfail"}
            /\ mpc' = "m_done"
            /\ pool' = "destroyed"
            /\ running' = TRUE
            /\ fd' = -1
            /\ UNCHANGED <<inBuf, outBuf>>
    /\ UNCHANGED <<cfgVars, codecVars, outMutex, spc, rpc, sockState, opens, closes, connects, tx, netVars,
                   rxVars, outVars, inVars, chanVars, initResult, uaf, joins,
                   cleanups>>

ConnOutcomes == {"sockfail", "resolvefail", "connfail", "ok"}

\* a setup that goes from connect straight to thread creation
AfterConnectNoHandshake == "m_spawn"

\* after a successful connect the handshake is sent, before any thread is created
AfterConnect == "m_handshake"

\* a setup that does not look at the result of connecting
AfterConnFailIgnored == AfterConnect

\* an application that tries the connection again after a failure
AfterConnFailRetry == "m_connect"

\* where the application goes when setup of the connection failed: v2 to its
\* cleanup label, v1 and v3 destroy the pool and return
AfterConnFail == IF variant = 2 THEN "m_td_flag" ELSE "m_initfail"

\* socket(), host resolution, connect()
MConnect ==
    /\ mpc = "m_connect"
    /\ \E o \in ConnOutcomes :
         /\ opens' = IF o = "sockfail" THEN opens ELSE opens + 1
         /\ connects' = IF o \in {"connfail", "ok"} THEN connects + 1 ELSE connects
         /\ closes' = IF o \in {"resolvefail", "connfail"} THEN closes + 1 ELSE closes
         /\ sockState' = CASE o = "ok" -> "open"
                           [] o = "sockfail" -> sockState
                           [] OTHER -> "closed"
         /\ fd' = CASE variant = 1 -> (IF o = "sockfail" THEN -1 ELSE 5)
                    [] variant = 2 -> -1
                    [] OTHER -> (IF o = "ok" THEN 5 ELSE -1)
         /\ mpc' = IF o = "ok" THEN AfterConnect ELSE AfterConnFail
         /\ initResult' = IF o = "ok" THEN initResult ELSE "connfail"
    /\ inBuf' = IF variant = 1 THEN "alive" ELSE inBuf
    /\ outBuf' = IF variant = 1 THEN "alive" ELSE outBuf
    /\ UNCHANGED <<cfgVars, codecVars, outMutex, spc, rpc, running, tx, netVars, rxVars, outVars, inVars,
                   chanVars, pool, uaf, joins,
                   cleanups>>

\* the handshake send
MHandshake ==
    /\ mpc = "m_handshake"
    /\ \E ok \in SendResults :
         /\ tx' = Append(tx, HsRecord(ok))
         /\ net' = NetAfterSend(ok)
         /\ IF variant = 1
            THEN \* result of send ignored
                 /\ running' = TRUE
                 /\ mpc' = "m_spawn"
                 /\ UNCHANGED <<fd, sockState, closes, initResult>>
            ELSE IF ok
            THEN /\ fd' = 5
                 /\ mpc' = "m_spawn"
                 /\ UNCHANGED <<running, sockState, closes, initResult>>
            ELSE /\ sockState' = "closed"
                 /\ closes' = closes + 1
                 /\ fd' = IF variant = 2 THEN -1 ELSE fd
                 /\ initResult' = "hsfail"
                 /\ mpc' = AfterConnFail
                 /\ UNCHANGED running
    /\ UNCHANGED <<cfgVars, codecVars, outMutex, spc, rpc, opens, connects, arrived, rxVars, outVars, inVars,
                   chanVars, inBuf, outBuf, pool, uaf, joins,
                   cleanups>>

\* setup failed: the pool is destroyed and the application returns (v1, v3)
MInitFail ==
    /\ mpc = "m_initfail"
    /\ pool' = "destroyed"
    /\ mpc' = "m_done"
    /\ UNCHANGED <<cfgVars, codecVars, outMutex, spc, rpc, running, sockVars, tx, netVars, rxVars, outVars,
                   inVars, chanVars, inBuf, outBuf, initResult, uaf, joins,
                   cleanups>>

\* switch_thread_create: v1 both workers (results ignored), v2 the receiver
\* (checked), v3 the receiver (result ignored)
MSpawn ==
    /\ mpc = "m_spawn"
    /\ \E rOk \in BOOLEAN, sOk \in BOOLEAN :
         /\ rpc' = IF rOk THEN "r_loop" ELSE "none"
         /\ spc' = IF variant = 1 /\ sOk THEN "s_loop" ELSE "none"
         /\ variant # 1 => sOk
         /\ mpc' = CASE variant = 1 -> "m1_bug"
                     [] variant = 2 -> (IF rOk THEN "m2_spawn_s" ELSE "m_td_flag")
                     [] OTHER -> "m_loop"
    /\ initResult' = "ok"
    /\ UNCHANGED <<cfgVars, codecVars, outMutex, running, sockVars, tx, netVars, rxVars, outVars, inVars,
                   chanVars, inBuf, outBuf, pool, uaf, joins,
                   cleanups>>

\* v2: switch_thread_create of the sender (checked)
M2SpawnSender ==
    /\ mpc = "m2_spawn_s"
    /\ \E sOk \in BOOLEAN :
         /\ spc' = IF sOk THEN "s_loop" ELSE "none"
         /\ mpc' = IF sOk THEN "m_loop" ELSE "m_td_flag"
    /\ UNCHANGED <<cfgVars, codecVars, outMutex, rpc, running, sockVars, tx, netVars, rxVars, outVars, inVars,
                   chanVars, resVars, uaf>>

\* v1: switch_core_media_bug_add
M1BugAdd ==
    /\ mpc = "m1_bug"
    /\ \E ok \in BOOLEAN :
         /\ bugAttached' = ok
         /\ mpc' = IF ok THEN "m_loop" ELSE "m_td_flag"
    /\ UNCHANGED <<cfgVars, codecVars, outMutex, spc, rpc, running, sockVars, tx, netVars, rxVars, outVars,
                   inVars, chanReady, hangups, callerFrames, mediaReady, resVars, uaf,
                   datalen>>


(***************************************************************************)
(* Application thread: the loop                                            *)
(***************************************************************************)
\* lengths of the frames the telephony side hands over
CallerLens == CASE variant = 1 -> {160, 320}
                [] variant = 2 -> {320}
                [] OTHER -> {2, 160, 240, 320, 640}

\* what one read of a caller frame may return: 0 stands for no frame
ReadOutcomes == {0} \cup (IF callerFrames < MaxCallerFrames THEN CallerLens ELSE {})

\* the loop condition: switch_channel_ready(channel) && ctx->running
MLoop ==
    /\ mpc = "m_loop"
    /\ IF chanReady /\ running
       THEN /\ variant # 1          \* v1 only sleeps 100 ms and tests again
            /\ mpc' = IF variant = 2 THEN "m2_read" ELSE "m3_read"
       ELSE mpc' = IF variant = 1 THEN "m1_bugrm" ELSE "m_td_flag"
    /\ UNCHANGED <<cfgVars, codecVars, outMutex, spc, rpc, running, sockVars, tx, netVars, rxVars, outVars,
                   inVars, chanVars, resVars, uaf>>

\* v2: read a caller frame and push it to the inbound buffer
M2Read ==
    /\ mpc = "m2_read"
    /\ \E len \in ReadOutcomes :
         IF len > 0
         THEN /\ inMutex = "free"
              /\ inOcc' = inOcc + len
              /\ sWake' = (sWake \/ spc = "s_waiting")
              /\ callerFrames' = callerFrames + 1
         ELSE UNCHANGED <<inOcc, sWake, callerFrames>>
    /\ mpc' = "m2_pop"
    /\ UNCHANGED <<cfgVars, codecVars, outMutex, spc, rpc, running, sockVars, tx, netVars, rxVars, outVars,
                   inMutex, bytesRead, chanReady, hangups, mediaReady, bugAttached,
                   resVars, uaf,
                   datalen>>

\* v2: switch_queue_trypop and write the frame to the caller
M2Pop ==
    /\ mpc = "m2_pop"
    /\ IF outq # <<>>
       THEN /\ played' = Append(played, Head(outq))
            /\ outq' = Tail(outq)
       ELSE UNCHANGED <<outq, played>>
    /\ mpc' = "m_loop"
    /\ UNCHANGED <<cfgVars, codecVars, outMutex, spc, rpc, running, sockVars, tx, netVars, rxVars, inVars,
                   chanVars, resVars, uaf>>

\* v3: a frame of a length other than 160 or 320 is sent as well
ForwardedAtLeast(len) == len >= PCMU_LEN

\* v3: the lengths that are sent: 160 (decoded to 320 bytes) and 320
Forwarded(len) == len \in {PCMU_LEN, V3_FRAME}

\* v3: read a caller frame; 160 bytes are decoded to 320, 320 go as they are
M3Read ==
    /\ mpc = "m3_read"
    /\ \E len \in ReadOutcomes :
         /\ callerFrames' = IF len > 0 THEN callerFrames + 1 ELSE callerFrames
         /\ mediaReady' = (mediaReady \/ len >= PCMU_LEN)
         /\ datalen' = len
         /\ IF Forwarded(len)
            THEN \E ok \in SendResults :
                   /\ tx' = Append(tx, AudioRecord(V3_FRAME, ok))
                   /\ net' = NetAfterSend(ok)
                   /\ mpc' = IF ok THEN "m3_write" ELSE "m_td_flag"
            ELSE /\ mpc' = "m3_write"
                 /\ UNCHANGED <<tx, net>>
    /\ UNCHANGED <<cfgVars, codecVars, outMutex, spc, rpc, running, sockVars, arrived, rxVars, outVars,
                   inVars, chanReady, hangups, bugAttached, resVars, uaf>>

\* the first n bytes of a buffer of pieces, and what is left after them
RECURSIVE TakeBytes(_, _)
TakeBytes(q, n) ==
    IF q = <<>> \/ n = 0 THEN <<>>
    ELSE IF Head(q)[2] <= n THEN <<Head(q)>> \o TakeBytes(Tail(q), n - Head(q)[2])
    ELSE << <<Head(q)[1], n>> >>
RECURSIVE DropBytes(_, _)
DropBytes(q, n) ==
    IF q = <<>> \/ n = 0 THEN q
    ELSE IF Head(q)[2] <= n THEN DropBytes(Tail(q), n - Head(q)[2])
    ELSE << <<Head(q)[1] + n, Head(q)[2] - n>> >> \o Tail(q)

\* bytes appended to a byte buffer: a piece that continues the last one is
\* one piece with it (a byte buffer keeps no record boundaries)
AppendBytes(q, piece) ==
    IF q # <<>> /\ q[Len(q)][1] + q[Len(q)][2] = piece[1]
    THEN [q EXCEPT ![Len(q)] = <<q[Len(q)][1], q[Len(q)][2] + piece[2]>>]
    ELSE Append(q, piece)

RECURSIVE AppendAll(_, _)
AppendAll(q, ps) == IF ps = <<>> THEN q ELSE AppendAll(AppendBytes(q, Head(ps)), Tail(ps))

\* bytes held by the outbound buffer
RECURSIVE Bytes(_)
Bytes(q) == IF q = <<>> THEN 0 ELSE Head(q)[2] + Bytes(Tail(q))

\* a loop that writes gateway audio whether or not the caller has been heard
MayDequeueAnyTime(ready, q) == Bytes(q) >= V3_FRAME

\* v3: media_ready && dequeue_bot_frame(...): the buffer is looked at only
\* once media is ready, and gives a frame when it holds 320 bytes
MayDequeue(ready, q) == ready /\ Bytes(q) >= V3_FRAME

\* v3: dequeue_bot_frame and write it to the caller, once media is ready
M3Write ==
    /\ mpc = "m3_write"
    /\ IF MayDequeue(mediaReady, outq)
       THEN /\ played' = played \o TakeBytes(outq, V3_FRAME)
            /\ outq' = DropBytes(outq, V3_FRAME)
       ELSE UNCHANGED <<outq, played>>
    /\ mpc' = "m_loop"
    /\ UNCHANGED <<cfgVars, codecVars, outMutex, spc, rpc, running, sockVars, tx, netVars, rxVars, inVars,
                   chanVars, resVars, uaf>>

(***************************************************************************)
(* v1: the media bug callback, run by the telephony side                   *)
(***************************************************************************)
\* SWITCH_ABC_TYPE_READ_REPLACE: caller audio goes to the inbound buffer
BugRead ==
    /\ variant = 1 /\ bugAttached
    /\ callerFrames < MaxCallerFrames
    /\ inMutex = "free"
    /\ \E len \in CallerLens : inOcc' = inOcc + len
    /\ callerFrames' = callerFrames + 1
    /\ UNCHANGED <<cfgVars, codecVars, outMutex, mpc, spc, rpc, running, sockVars, tx, netVars, rxVars,
                   outVars, inMutex, sWake, bytesRead, chanReady, hangups, mediaReady,
                   bugAttached, resVars, uaf,
                   datalen>>

\* SWITCH_ABC_TYPE_WRITE_REPLACE: up to one frame of gateway audio replaces the
\* frame going to the caller
BugWrite ==
    /\ variant = 1 /\ bugAttached
    /\ outq # <<>>
    /\ played' = AppendAll(played, TakeBytes(outq, V1_CHUNK))
    /\ outq' = DropBytes(outq, V1_CHUNK)
    /\ UNCHANGED <<cfgVars, codecVars, outMutex, mpc, spc, rpc, running, sockVars, tx, netVars, rxVars,
                   inVars, chanVars, resVars, uaf>>

(***************************************************************************)
(* Application thread: teardown                                            *)
(***************************************************************************)
\* a CLOSE case that sets the flag
BugCloseRestarts == TRUE

\* v1: what the callback's CLOSE case assigns to running (0)
BugCloseRunning == FALSE

\* v1: switch_core_media_bug_remove; the callback's CLOSE case clears running
M1BugRemove ==
    /\ mpc = "m1_bugrm"
    /\ bugAttached' = FALSE
    /\ running' = BugCloseRunning
    /\ mpc' = "m_td_flag"
    /\ UNCHANGED <<cfgVars, codecVars, outMutex, spc, rpc, sockVars, tx, netVars, rxVars, outVars, inVars,
                   chanReady, hangups, callerFrames, mediaReady, resVars, uaf,
                   datalen>>

\* ctx->running = 0
MTdFlag ==
    /\ mpc = "m_td_flag"
    /\ running' = FALSE
    /\ mpc' = IF variant = 2 THEN "m2_td_bcast" ELSE "m_td_close"
    /\ UNCHANGED <<cfgVars, codecVars, outMutex, spc, rpc, sockVars, tx, netVars, rxVars, outVars, inVars,
                   chanVars, resVars, uaf>>

\* v2: switch_thread_cond_broadcast(ctx->input_cond), mutex not held
M2TdBroadcast ==
    /\ mpc = "m2_td_bcast"
    /\ sWake' = (sWake \/ spc = "s_waiting")
    /\ mpc' = "m_td_close"
    /\ UNCHANGED <<cfgVars, codecVars, outMutex, spc, rpc, running, sockVars, tx, netVars, rxVars, outVars,
                   inOcc, inMutex, bytesRead, chanVars, resVars, uaf>>

\* a cleanup that calls close whatever the descriptor field holds
HoldsFdAlways == TRUE

\* the socket is closed if the context holds a descriptor
HoldsFd == IF variant = 1 THEN fd > 0 ELSE fd >= 0

MTdClose ==
    /\ mpc = "m_td_close"
    /\ IF HoldsFd
       THEN /\ closes' = closes + 1
            /\ sockState' = "closed"
            /\ fd' = IF variant = 1 THEN -1 ELSE fd
       ELSE UNCHANGED <<closes, sockState, fd>>
    /\ mpc' = CASE variant = 1 -> "m1_join_s"
                [] variant = 2 -> "m2_td_drain"
                [] OTHER -> "m_td_pool"
    /\ UNCHANGED <<cfgVars, codecVars, outMutex, spc, rpc, running, opens, connects, tx, netVars, rxVars,
                   outVars, inVars, chanVars, resVars, uaf>>

\* v1: switch_thread_join on each worker that was created
M1JoinSender ==
    /\ mpc = "m1_join_s"
    /\ spc \in {"none", "done"}
    /\ joins' = IF spc = "none" THEN joins ELSE joins + 1
    /\ mpc' = "m1_join_r"
    /\ UNCHANGED <<cfgVars, codecVars, outMutex, spc, rpc, running, sockVars, tx, netVars, rxVars, outVars,
                   inVars, chanVars, inBuf, outBuf, pool, initResult, cleanups, uaf>>

M1JoinReceiver ==
    /\ mpc = "m1_join_r"
    /\ rpc \in {"none", "done"}
    /\ joins' = IF rpc = "none" THEN joins ELSE joins + 1
    /\ mpc' = "m_td_bufs"
    /\ UNCHANGED <<cfgVars, codecVars, outMutex, spc, rpc, running, sockVars, tx, netVars, rxVars, outVars,
                   inVars, chanVars, inBuf, outBuf, pool, initResult, cleanups, uaf>>

\* v2: the queued frames are popped and freed
M2TdDrain ==
    /\ mpc = "m2_td_drain"
    /\ outq' = <<>>
    /\ mpc' = "m_td_bufs"
    /\ UNCHANGED <<cfgVars, codecVars, outMutex, spc, rpc, running, sockVars, tx, netVars, rxVars, played,
                   inVars, chanVars, resVars, uaf>>

\* switch_buffer_destroy: v1 both streams, v2 the inbound buffer
MTdBufs ==
    /\ mpc = "m_td_bufs"
    /\ inBuf' = "destroyed"
    /\ outBuf' = IF variant = 1 THEN "destroyed" ELSE outBuf
    /\ outq' = IF variant = 1 THEN <<>> ELSE outq
    /\ inOcc' = 0
    /\ cleanups' = IF variant = 1 THEN cleanups + 1 ELSE cleanups
    /\ mpc' = "m_td_pool"
    /\ UNCHANGED <<cfgVars, codecVars, outMutex, spc, rpc, running, sockVars, tx, netVars, rxVars, played,
                   inMutex, sWake, bytesRead, chanVars, pool, initResult, uaf, joins>>

\* switch_core_destroy_memory_pool; v2's queue lives in the pool, v3's output
\* buffer (switch_buffer_create_dynamic) does not and is not destroyed
MTdPool ==
    /\ mpc = "m_td_pool"
    /\ pool' = "destroyed"
    /\ outBuf' = IF variant = 2 THEN "destroyed" ELSE outBuf
    /\ mpc' = "m_done"
    /\ UNCHANGED <<cfgVars, codecVars, outMutex, spc, rpc, running, sockVars, tx, netVars, rxVars, outVars,
                   inVars, chanVars, inBuf, initResult, uaf, joins,
                   cleanups>>

(***************************************************************************)
(* Environment: the gateway, the network, the caller                       *)
(***************************************************************************)
\* the receiver is blocked in recv: the connection is up and nothing is buffered
RecvBlocked ==
    /\ rpc \in {"r_recv", "r_tag", "r_audio", "r_ctl", "r_peek", "r_len"}
    /\ sockState = "open" /\ net = "up" /\ arrived = rpos

\* the end of the frame the gateway is writing at offset a
NextBoundary(a) == CHOOSE s \in FrameStarts : s > a /\ \A t \in FrameStarts : t > a => s <= t

\* more of the gateway's stream reaches the socket: up to a cut point, at most
\* to the end of the frame being written
Deliver ==
    /\ RecvBlocked
    /\ arrived < WireLen
    /\ \E c \in CutPoints : c > arrived /\ c <= NextBoundary(arrived) /\ arrived' = c
    /\ UNCHANGED <<cfgVars, codecVars, outMutex, mpc, spc, rpc, running, sockVars, tx, net, rxVars, outVars,
                   inVars, chanVars, resVars, uaf>>

\* the gateway closes the connection: what has not arrived never will
PeerClose ==
    /\ RecvBlocked
    /\ net' = "eof"
    /\ UNCHANGED <<cfgVars, codecVars, outMutex, mpc, spc, rpc, running, sockVars, tx, arrived, rxVars,
                   outVars, inVars, chanVars, resVars, uaf>>

\* the connection breaks (reset)
NetError ==
    /\ RecvBlocked
    /\ net' = "err"
    /\ UNCHANGED <<cfgVars, codecVars, outMutex, mpc, spc, rpc, running, sockVars, tx, arrived, rxVars,
                   outVars, inVars, chanVars, resVars, uaf>>

\* the caller hangs up
CallerHangup ==
    /\ chanReady /\ mpc = "m_loop"
    /\ chanReady' = FALSE
    /\ UNCHANGED <<cfgVars, codecVars, outMutex, mpc, spc, rpc, running, sockVars, tx, netVars, rxVars,
                   outVars, inVars, hangups, callerFrames, mediaReady, bugAttached,
                   resVars, uaf,
                   datalen>>


(***************************************************************************)
(* Sender worker (v1 nova_send_thread, v2 gateway_send_thread)             *)
(***************************************************************************)
\* v1: while (running && gateway_socket > 0)
S1Loop ==
    /\ variant = 1 /\ spc = "s_loop"
    /\ spc' = IF running /\ fd > 0 THEN "s_lock" ELSE "done"
    /\ UNCHANGED <<cfgVars, codecVars, outMutex, mpc, rpc, running, sockVars, tx, netVars, rxVars, outVars,
                   inVars, chanVars, resVars>>

\* v1: lock; an empty buffer is waited on for at most 100 ms; read up to 320
\* bytes; unlock
S1Take ==
    /\ variant = 1 /\ spc \in {"s_lock", "s_twait"}
    /\ inMutex = "free"
    /\ IF spc = "s_lock" /\ inOcc = 0
       THEN /\ spc' = "s_twait"
            /\ UNCHANGED <<inOcc, bytesRead>>
       ELSE /\ bytesRead' = Min(V1_CHUNK, inOcc)
            /\ inOcc' = inOcc - bytesRead'
            /\ spc' = IF bytesRead' > 0 THEN "s_send" ELSE "s_loop"
    /\ UNCHANGED <<cfgVars, codecVars, outMutex, mpc, rpc, running, sockVars, tx, netVars, rxVars, outVars,
                   inMutex, sWake, chanVars, resVars>>

\* send(bytes_read); a failure clears running and ends the worker
SSend ==
    /\ variant \in {1, 2} /\ spc = "s_send"
    /\ \E ok \in SendResults :
         /\ tx' = Append(tx, AudioRecord(bytesRead, ok))
         /\ net' = NetAfterSend(ok)
         /\ IF ok
            THEN spc' = "s_loop" /\ UNCHANGED running
            ELSE spc' = "done" /\ running' = FALSE
    /\ UNCHANGED <<cfgVars, codecVars, outMutex, mpc, rpc, sockVars, arrived, rxVars, outVars, inVars,
                   chanVars, resVars>>

\* v2: while (ctx->running)
S2Loop ==
    /\ variant = 2 /\ spc = "s_loop"
    /\ spc' = IF running THEN "s_lock" ELSE "done"
    /\ UNCHANGED <<cfgVars, codecVars, outMutex, mpc, rpc, running, sockVars, tx, netVars, rxVars, outVars,
                   inVars, chanVars, resVars>>

\* v2: switch_mutex_lock(ctx->input_mutex)
S2Lock ==
    /\ variant = 2 /\ spc = "s_lock"
    /\ inMutex = "free"
    /\ inMutex' = "sender"
    /\ spc' = "s_check"
    /\ UNCHANGED <<cfgVars, codecVars, outMutex, mpc, rpc, running, sockVars, tx, netVars, rxVars, outVars,
                   inOcc, sWake, bytesRead, chanVars, resVars>>

\* v2: the wait loop's condition, then the running test and the read of 640
S2Check ==
    /\ variant = 2 /\ spc = "s_check"
    /\ IF inOcc < V2_FRAME /\ running
       THEN /\ spc' = "s_wait"
            /\ UNCHANGED <<inMutex, inOcc, bytesRead>>
       ELSE IF ~running
       THEN /\ spc' = "done"
            /\ inMutex' = "free"
            /\ UNCHANGED <<inOcc, bytesRead>>
       ELSE /\ bytesRead' = Min(V2_FRAME, inOcc)
            /\ inOcc' = inOcc - bytesRead'
            /\ inMutex' = "free"
            /\ spc' = IF bytesRead' = V2_FRAME THEN "s_send" ELSE "s_loop"
    /\ UNCHANGED <<cfgVars, codecVars, outMutex, mpc, rpc, running, sockVars, tx, netVars, rxVars, outVars,
                   sWake, chanVars, resVars>>

\* v2: switch_thread_cond_wait: the mutex is released and the thread sleeps
\* until the condition is signalled (no timeout)
S2Wait ==
    /\ variant = 2 /\ spc = "s_wait"
    /\ spc' = "s_waiting"
    /\ inMutex' = "free"
    /\ sWake' = FALSE
    /\ UNCHANGED <<cfgVars, codecVars, outMutex, mpc, rpc, running, sockVars, tx, netVars, rxVars, outVars,
                   inOcc, bytesRead, chanVars, resVars>>

\* v2: a signalled waiter takes the mutex again and tests the condition again
S2Wake ==
    /\ variant = 2 /\ spc = "s_waiting"
    /\ sWake /\ inMutex = "free"
    /\ sWake' = FALSE
    /\ inMutex' = "sender"
    /\ spc' = "s_check"
    /\ UNCHANGED <<cfgVars, codecVars, outMutex, mpc, rpc, running, sockVars, tx, netVars, rxVars, outVars,
                   inOcc, bytesRead, chanVars, resVars>>

Sender ==
    /\ S1Loop \/ S1Take \/ SSend \/ S2Loop \/ S2Lock \/ S2Check \/ S2Wait \/ S2Wake
    /\ uaf' = (uaf \/ pool = "destroyed")


(***************************************************************************)
(* Receiver worker                                                         *)
(***************************************************************************)
\* the gateway asks for hangup: the channel is hung up and running cleared
HangupV2(text) == StrStr(text, HANGUP)
HangupV3(text) == StrStr(text, TYPE_HANGUP)

\* a receive loop that does not test the running flag
RLoopCondNoFlag == IF variant = 2 THEN TRUE ELSE fd > 0

\* v1, v3: while (running && gateway_socket > 0); v2: while (ctx->running)
RLoopCond == IF variant = 2 THEN running ELSE running /\ fd > 0

RLoop ==
    /\ rpc = "r_loop"
    /\ rpc' = IF RLoopCond
              THEN CASE variant = 1 -> "r_recv" [] variant = 2 -> "r_tag" [] OTHER -> "r_peek"
              ELSE "done"
    /\ UNCHANGED <<cfgVars, codecVars, outMutex, mpc, spc, running, sockVars, tx, netVars, rxVars, outVars,
                   inVars, chanVars, resVars>>

\* v1: recv of up to 320 bytes; whatever arrived goes to the output buffer
R1Recv ==
    /\ variant = 1 /\ rpc = "r_recv"
    /\ CanRecv
    /\ LET r == RecvResult(V1_CHUNK) IN
         /\ lastRecv' = RecvKind(r)
         /\ IF r <= 0
            THEN /\ running' = FALSE
                 /\ rpc' = "done"
                 /\ UNCHANGED <<rpos, outq>>
            ELSE /\ outq' = AppendBytes(outq, <<rpos, r>>)
                 /\ rpos' = rpos + r
                 /\ rpc' = "r_loop"
                 /\ UNCHANGED running
    /\ UNCHANGED <<cfgVars, codecVars, outMutex, mpc, spc, sockVars, tx, netVars, got, fstart, msgLen, played,
                   inVars, chanVars, resVars>>

\* a receiver that gives up on a tag it does not know
AfterTagUnknownEnds(t) ==
    CASE t = TAG_AUDIO -> "r_audio" [] t = TAG_CTRL -> "r_ctl" [] OTHER -> "done"

\* v2: what follows the tag byte t: the audio payload, the control line, or
\* (unknown tag, logged) the next tag
AfterTag(t) ==
    CASE t = TAG_AUDIO -> "r_audio" [] t = TAG_CTRL -> "r_ctl" [] OTHER -> "r_loop"

\* v2: the tag byte
R2Tag ==
    /\ variant = 2 /\ rpc = "r_tag"
    /\ CanRecv
    /\ LET r == RecvResult(1) IN
         /\ lastRecv' = RecvKind(r)
         /\ IF r <= 0
            THEN /\ running' = FALSE
                 /\ rpc' = "done"
                 /\ UNCHANGED <<rpos, fstart, got>>
            ELSE /\ fstart' = rpos
                 /\ rpos' = rpos + 1
                 /\ got' = 0
                 /\ rpc' = AfterTag(Wire[rpos + 1])
                 /\ UNCHANGED running
    /\ UNCHANGED <<cfgVars, codecVars, outMutex, mpc, spc, sockVars, tx, netVars, msgLen, outVars, inVars,
                   chanVars, resVars>>

\* a receiver that hands over what it has when recv fails
AudioFailFlush(q, off, n) == IF n > 0 THEN Append(q, <<off, n>>) ELSE q

\* v2, v3: recv fails while n bytes of an audio frame (from offset off) are in
\* frame_buf / audio_buffer: the thread jumps to its end, nothing is queued
AudioFail(q, off, n) == q

\* a queue that takes every frame
TryPushAlways(q, piece) == Append(q, piece)

\* switch_queue_trypush: a full queue refuses the frame
TryPush(q, piece) == IF Len(q) < QUEUE_CAP THEN Append(q, piece) ELSE q

\* v2: the audio payload, read until 640 bytes are there, then queued
R2Audio ==
    /\ variant = 2 /\ rpc = "r_audio"
    /\ CanRecv
    /\ LET r == RecvResult(V2_FRAME - got) IN
         /\ lastRecv' = RecvKind(r)
         /\ IF r <= 0
            THEN /\ running' = FALSE
                 /\ rpc' = "done"
                 /\ outq' = AudioFail(outq, fstart + 1, got)
                 /\ UNCHANGED <<rpos, got>>
            ELSE /\ rpos' = rpos + r
                 /\ UNCHANGED running
                 /\ IF got + r >= V2_FRAME
                    THEN /\ outq' = TryPush(outq, <<fstart + 1, V2_FRAME>>)
                         /\ got' = 0
                         /\ rpc' = "r_loop"
                    ELSE /\ got' = got + r
                         /\ UNCHANGED <<outq, rpc>>
    /\ UNCHANGED <<cfgVars, codecVars, outMutex, mpc, spc, sockVars, tx, netVars, fstart, msgLen, played,
                   inVars, chanVars, resVars>>

\* a receiver that answers on the socket while it reads a control message
ReceiverTxReply(t) == Append(t, AudioRecord(0, TRUE))

\* what the receiver writes to the socket while it reads a control message:
\* nothing, the branch only calls recv, strstr and switch_channel_hangup
ReceiverTx(t) == t

\* v2: the control line ends: ctrl_buf[0..pos) is searched for "hangup"
\* (text begins after the tag byte)
CtlTextV2(pos) == SubSeq(Wire, fstart + 2, fstart + 1 + pos)

\* v2: one byte of the control line; the line ends at a newline, at 255 bytes
\* or when recv fails
R2Ctl ==
    /\ variant = 2 /\ rpc = "r_ctl"
    /\ CanRecv
    /\ tx' = ReceiverTx(tx)
    /\ LET r == RecvResult(1)
           more == r > 0 /\ Wire[rpos + 1] # NEWLINE
           pos == IF more THEN got + 1 ELSE got
           ends == ~more \/ pos >= CTRL_BUF - 1
       IN
         /\ lastRecv' = RecvKind(r)
         /\ rpos' = IF r > 0 THEN rpos + 1 ELSE rpos
         /\ got' = IF ends THEN 0 ELSE pos
         /\ rpc' = IF ends THEN "r_loop" ELSE "r_ctl"
         /\ IF ends /\ HangupV2(CtlTextV2(pos))
            THEN /\ running' = FALSE
                 /\ hangups' = hangups + 1
                 /\ chanReady' = FALSE
            ELSE UNCHANGED <<running, hangups, chanReady>>
    /\ UNCHANGED <<cfgVars, codecVars, outMutex, mpc, spc, sockVars, netVars, fstart, msgLen, outVars,
                   inVars, callerFrames, mediaReady, bugAttached, resVars,
                   datalen>>

\* v3: the heuristic on the four peeked bytes
IsControlLen(v) == v > 0 /\ v < CTL_MAX /\ v # V3_FRAME

\* v3: recv(header, 4, MSG_PEEK): nothing is consumed
R3Peek ==
    /\ variant = 3 /\ rpc = "r_peek"
    /\ CanRecv
    /\ LET r == RecvResult(4) IN
         /\ lastRecv' = RecvKind(r)
         /\ fstart' = rpos
         /\ got' = 0
         /\ rpc' = IF r = 4 /\ IsControlLen(BE32(SubSeq(Wire, rpos + 1, rpos + 4)))
                   THEN "r_len" ELSE "r_audio"
    /\ UNCHANGED <<cfgVars, codecVars, outMutex, mpc, spc, running, sockVars, tx, netVars, rpos, msgLen,
                   outVars, inVars, chanVars, resVars>>

\* what msg_length may hold when recv left length_buf unwritten
GarbageLens == {0, 20}

\* v3: recv(length_buf, 4, 0), result not looked at, then the range check
R3Len ==
    /\ variant = 3 /\ rpc = "r_len"
    /\ CanRecv
    /\ LET r == RecvResult(4) IN
         /\ lastRecv' = RecvKind(r)
         /\ rpos' = IF r > 0 THEN rpos + r ELSE rpos
         /\ \E len \in (IF r = 4 THEN {BE32(SubSeq(Wire, rpos + 1, rpos + 4))}
                        ELSE GarbageLens) :
              /\ msgLen' = len
              /\ rpc' = IF len > 0 /\ len < CTL_MAX THEN "r_ctl" ELSE "r_loop"
    /\ UNCHANGED <<cfgVars, codecVars, outMutex, mpc, spc, running, sockVars, tx, netVars, got, fstart,
                   outVars, inVars, chanVars, resVars>>

\* v3: one recv(control_msg, msg_length, 0); the message is looked at only if
\* all of it came
R3Ctl ==
    /\ variant = 3 /\ rpc = "r_ctl"
    /\ CanRecv
    /\ LET r == RecvResult(msgLen) IN
         /\ lastRecv' = RecvKind(r)
         /\ rpos' = IF r > 0 THEN rpos + r ELSE rpos
         /\ got' = 0
         /\ IF r = msgLen /\ HangupV3(SubSeq(Wire, rpos + 1, rpos + r))
            THEN /\ hangups' = hangups + 1
                 /\ chanReady' = FALSE
                 /\ running' = FALSE
            ELSE UNCHANGED <<running, hangups, chanReady>>
    /\ rpc' = "r_loop"
    /\ UNCHANGED <<cfgVars, codecVars, outMutex, mpc, spc, sockVars, tx, netVars, fstart, msgLen, outVars,
                   inVars, callerFrames, mediaReady, bugAttached, resVars,
                   datalen>>

\* switch_buffer_write on the v3 output buffer (max_len 32768): all or nothing
\* a buffer without a maximum
BufWriteUnbounded(q, piece) == Append(q, piece)

BufWrite(q, piece) == IF Bytes(q) + piece[2] <= OUT_MAX THEN Append(q, piece) ELSE q

\* v3: the audio frame, read until 320 bytes are there, then written
R3Audio ==
    /\ variant = 3 /\ rpc = "r_audio"
    /\ CanRecv
    /\ LET r == RecvResult(V3_FRAME - got) IN
         /\ lastRecv' = RecvKind(r)
         /\ IF r <= 0
            THEN /\ running' = FALSE
                 /\ rpc' = "done"
                 /\ outq' = AudioFail(outq, fstart, got)
                 /\ UNCHANGED <<rpos, got>>
            ELSE /\ rpos' = rpos + r
                 /\ UNCHANGED running
                 /\ IF got + r >= V3_FRAME
                    THEN /\ outq' = BufWrite(outq, <<fstart, V3_FRAME>>)
                         /\ got' = 0
                         /\ rpc' = "r_loop"
                    ELSE /\ got' = got + r
                         /\ UNCHANGED <<outq, rpc>>
    /\ UNCHANGED <<cfgVars, codecVars, outMutex, mpc, spc, sockVars, tx, netVars, fstart, msgLen, played,
                   inVars, chanVars, resVars>>

Receiver ==
    /\ RLoop \/ R1Recv \/ R2Tag \/ R2Audio \/ R2Ctl \/ R3Peek \/ R3Len \/ R3Ctl \/ R3Audio
    /\ uaf' = (uaf \/ pool = "destroyed")

Main ==
    \/ MStart \/ MConnect \/ MHandshake \/ MInitFail \/ MSpawn \/ M2SpawnSender
    \/ M1BugAdd \/ MLoop \/ M2Read \/ M2Pop \/ M3Read \/ M3Write
    \/ M1BugRemove \/ MTdFlag \/ M2TdBroadcast \/ MTdClose \/ M1JoinSender
    \/ M1JoinReceiver \/ M2TdDrain \/ MTdBufs \/ MTdPool

Telephony == BugRead \/ BugWrite \/ CallerHangup

Network == Deliver \/ PeerClose \/ NetError

Next == Main \/ Sender \/ Receiver \/ Telephony \/ Network

Spec == Init /\ [][Next]_vars

\* A v2 session in Streaming under load: the gateway has sent QUEUE_CAP - 1
\* audio frames in a burst, the receiver has queued them all, and the
\* application thread has not popped one yet (it pops one frame per caller
\* frame); the sender sleeps on an empty inbound buffer.
InitQueueLoaded ==
    /\ variant = 2 /\ scn = 0 /\ callerNum = "5551234567"
    /\ mpc = "m_loop" /\ spc = "s_waiting" /\ rpc = "r_loop"
    /\ running = TRUE
    /\ fd = 5 /\ sockState = "open" /\ opens = 1 /\ closes = 0 /\ connects = 1
    /\ tx = <<HsRecord(TRUE)>>
    /\ net = "up" /\ arrived = (QUEUE_CAP - 1) * (V2_FRAME + 1)
    /\ rpos = arrived /\ got = 0 /\ fstart = arrived - (V2_FRAME + 1)
    /\ msgLen = 0 /\ lastRecv = "data"
    /\ outq = [i \in 1..(QUEUE_CAP - 1) |-> <<(i - 1) * (V2_FRAME + 1) + 1, V2_FRAME>>]
    /\ played = <<>>
    /\ inOcc = 0 /\ inMutex = "free" /\ sWake = FALSE /\ bytesRead = 0
    /\ chanReady = TRUE /\ hangups = 0 /\ callerFrames = 0 /\ datalen = 0
    /\ mediaReady = FALSE /\ bugAttached = FALSE
    /\ inBuf = "alive" /\ outBuf = "alive" /\ pool = "alive" /\ initResult = "ok"
    /\ joins = 0 /\ cleanups = 0
    /\ uaf = FALSE /\ outMutex = "free"
    /\ CodecIdle

\* caller frames the v2 application thread has pushed when the inbound buffer
\* holds all but 64 bytes of its first allocation and the sender holds one
\* frame: (16320 + 640) / 320
LoadedCallerFrames == (IN_START_V2 \div 320) + (V2_FRAME \div 320)

\* A v2 session in Streaming whose sender has taken its first frame and is
\* held in send() while the caller keeps talking: the application thread has
\* pushed LoadedCallerFrames frames of 320 bytes, and in its turns round the
\* loop (some without a caller frame) has popped every frame the gateway's
\* burst left in the queue.
InitInboundLoaded ==
    /\ variant = 2 /\ scn = 0 /\ callerNum = "5551234567"
    /\ mpc = "m_loop" /\ spc = "s_send" /\ rpc = "r_tag"
    /\ running = TRUE
    /\ fd = 5 /\ sockState = "open" /\ opens = 1 /\ closes = 0 /\ connects = 1
    /\ tx = <<HsRecord(TRUE)>>
    /\ net = "up" /\ arrived = Len(BurstWire)
    /\ rpos = arrived /\ got = 0 /\ fstart = arrived - (V2_FRAME + 1)
    /\ msgLen = 0 /\ lastRecv = "data"
    /\ played = [i \in 1..QUEUE_CAP |-> <<(i - 1) * (V2_FRAME + 1) + 1, V2_FRAME>>]
    /\ outq = <<>>
    /\ inOcc = LoadedCallerFrames * 320 - V2_FRAME
    /\ inMutex = "free" /\ sWake = FALSE /\ bytesRead = V2_FRAME
    /\ chanReady = TRUE /\ hangups = 0 /\ callerFrames = 0 /\ datalen = 0
    /\ mediaReady = FALSE /\ bugAttached = FALSE
    /\ inBuf = "alive" /\ outBuf = "alive" /\ pool = "alive" /\ initResult = "ok"
    /\ joins = 0 /\ cleanups = 0
    /\ uaf = FALSE /\ outMutex = "free"
    /\ CodecIdle

\* A v3 session in Streaming that has sent its handshake and ten frames of 320
\* bytes; the gateway's stream (4 or 5) has not arrived yet, or has arrived
\* whole before the receiver's first recv.
InitTenFrames ==
    /\ variant = 3 /\ scn \in {4, 5} /\ callerNum = "5551234567"
    /\ mpc = "m_loop" /\ spc = "none" /\ rpc = "r_loop"
    /\ running = TRUE
    /\ fd = 5 /\ sockState = "open" /\ opens = 1 /\ closes = 0 /\ connects = 1
    /\ tx = <<HsRecord(TRUE)>> \o [i \in 1..10 |-> AudioRecord(V3_FRAME, TRUE)]
    /\ net = "up" /\ arrived \in {0, WireLen}
    /\ rpos = 0 /\ got = 0 /\ fstart = 0 /\ msgLen = 0 /\ lastRecv = "none"
    /\ outq = <<>> /\ played = <<>>
    /\ inOcc = 0 /\ inMutex = "free" /\ sWake = FALSE /\ bytesRead = 0
    /\ chanReady = TRUE /\ hangups = 0 /\ callerFrames = 0 /\ datalen = V3_FRAME
    /\ mediaReady = TRUE /\ bugAttached = FALSE
    /\ inBuf = "none" /\ outBuf = "alive" /\ pool = "alive" /\ initResult = "ok"
    /\ joins = 0 /\ cleanups = 0
    /\ uaf = FALSE /\ outMutex = "free"
    /\ CodecIdle

\* A v3 session in Streaming whose caller has produced nothing but 2-byte
\* comfort noise so far (media_ready is not set, nothing is dequeued) while
\* the gateway talks: the receiver has written all but the last two frames of
\* the burst to the outbound buffer, which has room for one more.
InitOutboundLoaded ==
    /\ variant = 3 /\ scn = 0 /\ callerNum = "5551234567"
    /\ mpc = "m_loop" /\ spc = "none" /\ rpc = "r_loop"
    /\ running = TRUE
    /\ fd = 5 /\ sockState = "open" /\ opens = 1 /\ closes = 0 /\ connects = 1
    /\ tx = <<HsRecord(TRUE)>>
    /\ net = "up" /\ arrived = Len(BurstWire3) - 2 * V3_FRAME
    /\ rpos = arrived /\ got = 0 /\ fstart = arrived - V3_FRAME
    /\ msgLen = 0 /\ lastRecv = "data"
    /\ outq = [i \in 1..(arrived \div V3_FRAME) |-> <<(i - 1) * V3_FRAME, V3_FRAME>>]
    /\ played = <<>>
    /\ inOcc = 0 /\ inMutex = "free" /\ sWake = FALSE /\ bytesRead = 0
    /\ chanReady = TRUE /\ hangups = 0 /\ callerFrames = 0 /\ datalen = 2
    /\ mediaReady = FALSE /\ bugAttached = FALSE
    /\ inBuf = "none" /\ outBuf = "alive" /\ pool = "alive" /\ initResult = "ok"
    /\ joins = 0 /\ cleanups = 0
    /\ uaf = FALSE /\ outMutex = "free"
    /\ CodecIdle

\* sessions from construction, and sessions picked up in Streaming
LoadSpec == (Init \/ InitQueueLoaded \/ InitInboundLoaded \/ InitTenFrames) /\ [][Next]_vars

\* sessions from construction, and v3 sessions whose outbound buffer is full
OutLoadSpec == (Init \/ InitOutboundLoaded) /\ [][Next]_vars

\* v1: nova_session_cleanup invoked once more on the session it has already
\* cleaned up, before the pool is destroyed (the whole call as one step):
\* running is cleared, the socket is closed if gateway_socket > 0, each worker
\* whose handle is set is joined, each stream's buffer is destroyed if its
\* pointer is set
M1CleanupAgain ==
    /\ variant = 1 /\ mpc = "m_td_pool" /\ cleanups = 1
    /\ running' = FALSE
    /\ IF HoldsFd
       THEN /\ closes' = closes + 1
            /\ sockState' = "closed"
            /\ fd' = -1
       ELSE UNCHANGED <<closes, sockState, fd>>
    /\ joins' = joins + (IF spc = "none" THEN 0 ELSE 1) + (IF rpc = "none" THEN 0 ELSE 1)
    /\ inBuf' = IF inBuf = "alive" THEN "destroyed" ELSE inBuf
    /\ outBuf' = IF outBuf = "alive" THEN "destroyed" ELSE outBuf
    /\ cleanups' = cleanups + 1
    /\ UNCHANGED <<cfgVars, codecVars, outMutex, mpc, spc, rpc, opens, connects, tx, netVars, rxVars, outVars,
                   inVars, chanVars, pool, initResult, uaf>>

\* sessions whose cleanup may be invoked a second time
TwiceSpec == Init /\ [][Next \/ M1CleanupAgain]_vars

\* Every thread that can take a step eventually takes one.
FairSpec == Spec /\ WF_vars(Main) /\ WF_vars(Sender) /\ WF_vars(Receiver)

(***************************************************************************)
(* The mu-law codec of v3 (ulaw2linear, ulaw_to_pcm16, linear2ulaw), with  *)
(* C's integer operations written out on the integers                      *)
(***************************************************************************)
\* conversion to int16_t: the value modulo 2^16 in -32768..32767
Int16(x) == ((x + 32768) % 65536) - 32768

\* x & mask for a mask of one bit, x in two's complement
BitAnd(x, mask) == ((x \div mask) % 2) * mask

\* 1 << n
RECURSIVE Pow2(_)
Pow2(n) == IF n = 0 THEN 1 ELSE 2 * Pow2(n - 1)

\* static const int exp_lut[8]
exp_lut == <<0, 132, 396, 924, 1980, 4092, 8316, 16764>>

cBias == 132
cClip == 32635

\* a decoder that leaves out the bit inversion u = ~u
ulaw2linearNoInvert(u) ==
    LET t == (((u % 16) * 8) + cBias) * Pow2((u \div 16) % 8)
    IN  IF u >= 128 THEN Int16(cBias - t) ELSE Int16(t - cBias)

\* ulaw2linear: u = ~u; t = ((u & 0x0F) << 3) + 0x84; t <<= (u & 0x70) >> 4;
\* return (u & 0x80) ? (int16_t)(0x84 - t) : (int16_t)(t - 0x84)
ulaw2linear(u) ==
    LET v == 255 - u
        t == (((v % 16) * 8) + cBias) * Pow2((v \div 16) % 8)
    IN  IF BitAnd(v, 128) # 0 THEN Int16(cBias - t) ELSE Int16(t - cBias)

\* a frame decoder that widens each byte without decoding it
ulaw_to_pcm16Copy(in) == [i \in 1..Len(in) |-> in[i]]

\* ulaw_to_pcm16: out[i] = ulaw2linear(in[i]) for each of the samples
ulaw_to_pcm16(in) == [i \in 1..Len(in) |-> ulaw2linear(in[i])]

\* linear2ulaw's loop: for (expMask = 0x4000; (sample & expMask) == 0 &&
\* exponent > 0; expMask >>= 1) exponent--
RECURSIVE ExponentOf(_, _, _)
ExponentOf(sample, exponent, expMask) ==
    IF BitAnd(sample, expMask) = 0 /\ exponent > 0
    THEN ExponentOf(sample, exponent - 1, expMask \div 2)
    ELSE exponent

\* linear2ulaw; sample is an int16_t, so -sample and sample + cBias are
\* converted back to 16 bits when they are stored
linear2ulaw(sample) ==
    LET sign == BitAnd(sample \div 256, 128)
        mag == IF sign # 0 THEN Int16(0 - sample) ELSE sample
        clipped == IF mag > cClip THEN cClip ELSE mag
        biased == Int16(clipped + cBias)
        exponent == ExponentOf(biased, 7, 16384)
        shift == IF exponent = 0 THEN 4 ELSE exponent + 3
        mantissa == (biased \div Pow2(shift)) % 16
    IN  255 - (sign + exponent * 16 + mantissa)

\* the frames given to the decoder: 160 bytes, all the same
FrameInputs == {[i \in 1..PCMU_LEN |-> b] : b \in 0..255}

\* the codec is given a sample, a code word or a frame
CodecInit ==
    /\ variant = 3 /\ scn = 1 /\ callerNum = "none"
    /\ mpc = "m_start" /\ spc = "none" /\ rpc = "none"
    /\ running = FALSE
    /\ fd = 0 /\ sockState = "none" /\ opens = 0 /\ closes = 0 /\ connects = 0
    /\ tx = <<>>
    /\ net = "up" /\ arrived = 0
    /\ rpos = 0 /\ got = 0 /\ fstart = 0 /\ msgLen = 0 /\ lastRecv = "none"
    /\ outq = <<>> /\ played = <<>>
    /\ inOcc = 0 /\ inMutex = "free" /\ sWake = FALSE /\ bytesRead = 0
    /\ chanReady = TRUE /\ hangups = 0 /\ callerFrames = 0 /\ datalen = 0
    /\ mediaReady = FALSE /\ bugAttached = FALSE
    /\ inBuf = "none" /\ outBuf = "none" /\ pool = "none" /\ initResult = "none"
    /\ joins = 0 /\ cleanups = 0
    /\ uaf = FALSE /\ outMutex = "free"
    /\ \/ /\ cpc = "pcm_in" /\ orig \in -32768..32767
          /\ pcm = orig /\ ulaw = 0 /\ ulawFrame = <<>>
       \/ /\ cpc = "ulaw_in" /\ orig \in 0..255
          /\ ulaw = orig /\ pcm = 0 /\ ulawFrame = <<>>
       \/ /\ cpc = "frame_in" /\ ulawFrame \in FrameInputs
          /\ orig = 0 /\ pcm = 0 /\ ulaw = 0
    /\ pcmFrame = <<>>

sessionVars == <<cfgVars, mpc, spc, rpc, running, sockVars, tx, netVars, rxVars, outVars,
                 inVars, outMutex, chanVars, resVars, uaf>>

\* linear2ulaw applied to the sample: first half of a sample's round trip,
\* second half of a code word's
Encode ==
    /\ cpc \in {"pcm_in", "ulaw_dec"}
    /\ ulaw' = linear2ulaw(pcm)
    /\ cpc' = IF cpc = "pcm_in" THEN "pcm_enc" ELSE "ulaw_enc"
    /\ UNCHANGED <<sessionVars, orig, pcm, ulawFrame, pcmFrame>>

\* ulaw2linear applied to the code word
Decode ==
    /\ cpc \in {"ulaw_in", "pcm_enc"}
    /\ pcm' = ulaw2linear(ulaw)
    /\ cpc' = IF cpc = "ulaw_in" THEN "ulaw_dec" ELSE "pcm_dec"
    /\ UNCHANGED <<sessionVars, orig, ulaw, ulawFrame, pcmFrame>>

\* ulaw_to_pcm16 applied to the frame; it may be called again on the same frame
DecodeFrame ==
    /\ cpc \in {"frame_in", "frame_dec"}
    /\ pcmFrame' = ulaw_to_pcm16(ulawFrame)
    /\ cpc' = "frame_dec"
    /\ UNCHANGED <<sessionVars, orig, pcm, ulaw, ulawFrame>>

CodecNext == Encode \/ Decode \/ DecodeFrame

CodecSpec == CodecInit /\ [][CodecNext]_vars

(***************************************************************************)
(* The buffer mutexes, step by step.  In the session actions above a       *)
(* critical section (lock, switch_buffer_*, unlock) is one step; here each *)
(* lock, buffer call, unlock and blocking socket call of the streaming     *)
(* loops is a step of its own, for a session that is in Streaming.         *)
(***************************************************************************)
\* Streaming: connected, handshake sent, workers running, two frames of
\* gateway audio on their way (v1, v3; a v2 gateway that stays silent)
LockInit ==
    /\ variant \in 1..3 /\ scn = 1 /\ callerNum = "5551234567"
    /\ mpc = "tl_idle"
    /\ spc = (IF variant = 3 THEN "none" ELSE "sl_loop")
    /\ rpc = (IF variant = 2 THEN "r_tag" ELSE "rl_recv")
    /\ running = TRUE
    /\ fd = 5 /\ sockState = "open" /\ opens = 1 /\ closes = 0 /\ connects = 1
    /\ tx = <<HsRecord(TRUE)>>
    /\ net \in (IF variant = 2 THEN {"up"} ELSE {"up", "eof"})
    /\ arrived = (IF variant = 2 THEN 0 ELSE 2 * V1_CHUNK)
    /\ rpos = 0 /\ got = 0 /\ fstart = 0 /\ msgLen = 0 /\ lastRecv = "none"
    /\ outq = <<>> /\ played = <<>>
    /\ inOcc = 0 /\ inMutex = "free" /\ sWake = FALSE /\ bytesRead = 0
    /\ chanReady = TRUE /\ hangups = 0 /\ callerFrames = 0 /\ datalen = 0
    /\ mediaReady = (variant = 3) /\ bugAttached = (variant = 1)
    /\ inBuf = (IF variant = 3 THEN "none" ELSE "alive")
    /\ outBuf = "alive" /\ pool = "alive" /\ initResult = "ok"
    /\ joins = 0 /\ cleanups = 0
    /\ uaf = FALSE /\ outMutex = "free"
    /\ CodecIdle

\* what the mutex steps leave alone
lockFixed == <<cfgVars, codecVars, sockVars, arrived, fstart, msgLen, chanReady, hangups,
               mediaReady, datalen, bugAttached, resVars, uaf>>

\* a cond wait that comes back without the mutex
WaitReturnsUnlocked == "free"

\* switch_thread_cond_wait / _timedwait release the mutex while the thread
\* sleeps and hold it again when they return
WaitReturns == "sender"

\* sender worker (v1 nova_send_thread, v2 gateway_send_thread): the loop
\* test, lock, switch_buffer_inuse, the cond wait, switch_buffer_read, unlock
\* and send
SenderLock ==
    /\ variant \in {1, 2}
    /\ \/ /\ spc = "sl_loop"
          /\ spc' = IF running /\ fd > 0 THEN "sl_lock" ELSE "done"
          /\ UNCHANGED <<inMutex, inOcc, sWake, bytesRead, tx, running, net>>
       \/ /\ spc = "sl_lock" /\ inMutex = "free"
          /\ inMutex' = "sender"
          /\ spc' = "sl_inuse"
          /\ UNCHANGED <<inOcc, sWake, bytesRead, tx, running, net>>
       \/ /\ spc = "sl_inuse"
          /\ IF variant = 1
             THEN IF inOcc = 0
                  THEN spc' = "sl_wait" /\ inMutex' = "free"
                  ELSE spc' = "sl_read" /\ UNCHANGED inMutex
             ELSE IF inOcc < V2_FRAME /\ running
                  THEN spc' = "sl_wait" /\ inMutex' = "free"
                  ELSE IF ~running
                       THEN spc' = "done" /\ inMutex' = "free"
                       ELSE spc' = "sl_read" /\ UNCHANGED inMutex
          /\ UNCHANGED <<inOcc, sWake, bytesRead, tx, running, net>>
       \/ /\ spc = "sl_wait" /\ inMutex = "free"
          /\ variant = 2 => sWake
          /\ inMutex' = WaitReturns
          /\ sWake' = FALSE
          /\ spc' = IF variant = 1 THEN "sl_read" ELSE "sl_inuse"
          /\ UNCHANGED <<inOcc, bytesRead, tx, running, net>>
       \/ /\ spc = "sl_read"
          /\ bytesRead' = Min(IF variant = 1 THEN V1_CHUNK ELSE V2_FRAME, inOcc)
          /\ inOcc' = inOcc - bytesRead'
          /\ spc' = "sl_unlock"
          /\ UNCHANGED <<inMutex, sWake, tx, running, net>>
       \/ /\ spc = "sl_unlock"
          /\ inMutex' = "free"
          /\ spc' = IF (variant = 1 /\ bytesRead > 0) \/ bytesRead = V2_FRAME
                    THEN "sl_send" ELSE "sl_loop"
          /\ UNCHANGED <<inOcc, sWake, bytesRead, tx, running, net>>
       \/ /\ spc = "sl_send"
          /\ \E ok \in SendResults :
               /\ tx' = Append(tx, AudioRecord(bytesRead, ok))
               /\ net' = NetAfterSend(ok)
               /\ running' = (running /\ ok)
               /\ spc' = IF ok THEN "sl_loop" ELSE "done"
          /\ UNCHANGED <<inMutex, inOcc, sWake, bytesRead>>
    /\ UNCHANGED <<lockFixed, mpc, rpc, rpos, got, lastRecv, outVars, outMutex, callerFrames>>

\* receiver worker (v1 nova_recv_thread:237-259, v3 nova_recv_thread:212-236):
\* recv, lock, switch_buffer_write, unlock
ReceiverLock ==
    /\ variant \in {1, 3}
    /\ \/ /\ rpc = "rl_recv" /\ ~running
          /\ rpc' = "done"
          /\ UNCHANGED <<running, rpos, got, lastRecv, outq, outMutex>>
       \/ /\ rpc = "rl_recv" /\ running /\ CanRecv
          /\ LET r == RecvResult(V1_CHUNK) IN
               /\ lastRecv' = RecvKind(r)
               /\ IF r <= 0
                  THEN /\ running' = FALSE
                       /\ rpc' = "done"
                       /\ UNCHANGED <<rpos, got>>
                  ELSE /\ rpos' = rpos + r
                       /\ got' = r
                       /\ rpc' = "rl_lock"
                       /\ UNCHANGED running
          /\ UNCHANGED <<outq, outMutex>>
       \/ /\ rpc = "rl_lock" /\ outMutex = "free"
          /\ outMutex' = "receiver"
          /\ rpc' = "rl_write"
          /\ UNCHANGED <<running, rpos, got, lastRecv, outq>>
       \/ /\ rpc = "rl_write"
          /\ outq' = AppendBytes(outq, <<rpos - got, got>>)
          /\ rpc' = "rl_unlock"
          /\ UNCHANGED <<running, rpos, got, lastRecv, outMutex>>
       \/ /\ rpc = "rl_unlock"
          /\ outMutex' = "free"
          /\ got' = 0
          /\ rpc' = "rl_recv"
          /\ UNCHANGED <<running, rpos, lastRecv, outq>>
    /\ UNCHANGED <<lockFixed, mpc, spc, tx, net, played, inVars, callerFrames>>

\* telephony side, inbound: a caller frame is written to the inbound buffer
\* and the sender is signalled (v1 nova_bug_callback READ_REPLACE:130-133,
\* v2 nova_sonic_function:295-298); v3 sends it itself (:406, :418); the v2
\* loop may end, and its cleanup clears running and wakes the sender (:322-326)
MediaIn ==
    /\ \/ /\ mpc = "tl_idle" /\ callerFrames < MaxCallerFrames
          /\ callerFrames' = callerFrames + 1
          /\ mpc' = IF variant = 3 THEN "tl_send" ELSE "tl_in_lock"
          /\ UNCHANGED <<inMutex, inOcc, sWake, tx, net, running>>
       \/ /\ mpc = "tl_in_lock" /\ inMutex = "free"
          /\ inMutex' = "media"
          /\ mpc' = "tl_in_write"
          /\ UNCHANGED <<inOcc, sWake, tx, net, callerFrames, running>>
       \/ /\ mpc = "tl_in_write"
          /\ inOcc' = inOcc + V1_CHUNK
          /\ sWake' = (spc = "sl_wait")
          /\ mpc' = "tl_in_unlock"
          /\ UNCHANGED <<inMutex, tx, net, callerFrames, running>>
       \/ /\ mpc = "tl_in_unlock"
          /\ inMutex' = "free"
          /\ mpc' = IF variant = 1 THEN "tl_idle" ELSE "tl_pop"
          /\ UNCHANGED <<inOcc, sWake, tx, net, callerFrames, running>>
       \/ /\ mpc = "tl_send"
          /\ \E ok \in SendResults :
               /\ tx' = Append(tx, AudioRecord(V3_FRAME, ok))
               /\ net' = NetAfterSend(ok)
               /\ mpc' = IF ok THEN "tl_out_lock" ELSE "done"
          /\ UNCHANGED <<inMutex, inOcc, sWake, callerFrames, running>>
       \/ /\ mpc = "tl_idle" /\ variant = 2
          /\ running' = FALSE
          /\ sWake' = (spc = "sl_wait")
          /\ mpc' = "done"
          /\ UNCHANGED <<inMutex, inOcc, tx, net, callerFrames>>
    /\ UNCHANGED <<lockFixed, spc, rpc, rpos, got, lastRecv, outVars, outMutex, bytesRead>>

\* telephony side, outbound: gateway audio is taken from the outbound buffer
\* (v1 nova_bug_callback WRITE_REPLACE:143-159, v3 dequeue_bot_frame:252-262);
\* v2 pops its playback queue, which has no mutex of the module's
MediaOut ==
    /\ \/ /\ mpc = "tl_idle" /\ variant \in {1, 3}
          /\ mpc' = "tl_out_lock"
          /\ UNCHANGED <<outVars, outMutex>>
       \/ /\ mpc = "tl_pop"
          /\ mpc' = "tl_idle"
          /\ UNCHANGED <<outVars, outMutex>>
       \/ /\ mpc = "tl_out_lock" /\ outMutex = "free"
          /\ outMutex' = "media"
          /\ mpc' = "tl_out_read"
          /\ UNCHANGED outVars
       \/ /\ mpc = "tl_out_read"
          /\ IF variant = 1 \/ Bytes(outq) >= V3_FRAME
             THEN /\ played' = AppendAll(played, TakeBytes(outq, V1_CHUNK))
                  /\ outq' = DropBytes(outq, V1_CHUNK)
             ELSE UNCHANGED <<outq, played>>
          /\ mpc' = "tl_out_unlock"
          /\ UNCHANGED outMutex
       \/ /\ mpc = "tl_out_unlock"
          /\ outMutex' = "free"
          /\ mpc' = "tl_idle"
          /\ UNCHANGED outVars
    /\ UNCHANGED <<lockFixed, spc, rpc, running, tx, net, rpos, got, lastRecv, inVars,
                   callerFrames>>

LockNext == SenderLock \/ ReceiverLock \/ MediaIn \/ MediaOut

LockSpec == LockInit /\ [][LockNext]_vars

(***************************************************************************)
(* Properties                                                              *)
(***************************************************************************)

\* C1: in every variant the handshake is handed to send exactly once per
\* session that connected, it is the first thing sent, and it is sent before
\* any worker exists and before the session streams: no audio byte precedes it.
C1_HandshakeOnceFirst ==
    LET hs == {i \in 1..Len(tx) : tx[i].kind = "hs"} IN
    /\ Cardinality(hs) <= 1
    /\ tx # <<>> => hs = {1}
    /\ (sockState = "open" /\ mpc # "m_handshake") => hs = {1}
    /\ (SessionState = "Streaming" \/ spc # "none" \/ rpc # "none") => hs = {1}

\* an audio chunk went out after the handshake, and nothing else was a handshake
C1_Witness ==
    /\ Len(tx) >= 2
    /\ tx[1].kind = "hs" /\ tx[1].ok
    /\ tx[2].kind = "audio" /\ tx[2].ok

\* C2: when the socket cannot be created, the host not resolved or the connect
\* fails, the failure is reported in that same step, the session never streams,
\* no worker is created, nothing is sent (no handshake, no audio), the socket is
\* not left open, and the application thread runs on to Closed.
C2_ConnectFailure ==
    /\ initResult = "connfail" =>
          /\ SessionState \in {"Draining", "Closed"}
          /\ spc = "none" /\ rpc = "none"
          /\ tx = <<>>
          /\ sockState # "open"
          /\ mpc = "m_done" \/ ENABLED Main
    /\ (tx = <<>> /\ mpc \notin {"m_start", "m_connect", "m_handshake", "m_done"})
          => initResult = "connfail"

\* connect() itself failed and the session is Closed
C2_Witness == initResult = "connfail" /\ connects = 1 /\ mpc = "m_done"

\* C3: when the receiver has read a complete control frame whose text asks for
\* hangup (v2: contains hangup; v3: contains "type":"hangup"), it hangs the
\* channel up and clears the running flag in that step; from then on it
\* consumes no byte more, and the flag stays cleared.
C3_HangupStopsReceiver ==
    /\ [](hangups > 0 => ~running /\ ~chanReady /\ hangups = 1 /\ rpc \in {"r_loop", "done"})
    /\ [][ /\ (/\ rpc = "r_ctl"
               /\ fstart \in FrameStarts /\ fstart < WireLen
               /\ IF variant = 2
                  THEN /\ Wire[fstart + 1] = TAG_CTRL
                       /\ StrStr(SubSeq(Wire, fstart + 2, NextBoundary(fstart) - 1), HANGUP)
                  ELSE /\ variant = 3
                       /\ rpos = fstart + 4
                       /\ BE32(SubSeq(Wire, fstart + 1, fstart + 4)) = NextBoundary(fstart) - rpos
                       /\ StrStr(SubSeq(Wire, fstart + 5, NextBoundary(fstart)), TYPE_HANGUP)
               /\ rpos' = NextBoundary(fstart)
               /\ lastRecv' = "data")
                 => (hangups' = hangups + 1 /\ ~running' /\ ~chanReady')
           /\ hangups > 0 => (rpos' = rpos /\ hangups' = hangups /\ ~running') ]_vars

\* the receiver has hung up and ended at a frame boundary, with frames unread
C3_Witness ==
    /\ hangups = 1 /\ rpc = "done"
    /\ rpos \in FrameStarts /\ rpos > 0 /\ rpos < WireLen

\* C4: a recv that fails or reports the peer's close, and a send of audio that
\* fails, each clear the running flag and end the loop of the worker that made
\* the call, with no further send or recv.
C4_IoFailureEndsWorker ==
    /\ lastRecv \in {"eof", "err"} => (rpc = "done" /\ ~running)
    /\ (tx # <<>> /\ tx[Len(tx)].kind = "audio" /\ ~tx[Len(tx)].ok) =>
          IF variant = 3
          THEN mpc \notin {"m_loop", "m3_read", "m3_write"}
          ELSE spc = "done" /\ ~running

\* a recv reported the peer's close and the receiver is about to call recv again
C4_Witness == lastRecv = "eof" /\ rpc \in {"r_audio", "r_ctl", "r_tag", "r_peek", "r_len"}

\* C5: once a session that streamed has its running flag cleared or its channel
\* no longer ready, the application thread can always go on until the session is
\* Closed, and in Closed the socket is closed and the buffers are released.
C5_StopLeadsToClosed ==
    /\ (initResult = "ok" /\ mpc = "m_done") =>
          (sockState = "closed" /\ inBuf # "alive" /\ outBuf # "alive")
    /\ (initResult = "ok" /\ (~running \/ ~chanReady) /\ mpc # "m_done") =>
          ENABLED (Main \/ Sender \/ Receiver)

\* v3 is Closed and its output buffer was never destroyed
C5_Witness == variant = 3 /\ initResult = "ok" /\ mpc = "m_done" /\ outBuf = "alive"

\* C6: teardown releases nothing before both workers have exited, so no worker
\* ever runs on the context after the pool, a buffer or the queue is gone.
C6_NoUseAfterRelease ==
    /\ ~uaf
    /\ (pool = "destroyed" \/ inBuf = "destroyed" \/ outBuf = "destroyed") =>
          (spc \in {"none", "done"} /\ rpc \in {"none", "done"})

\* a worker took a step after the pool was destroyed
C6_Witness == uaf /\ pool = "destroyed" /\ mpc = "m_done"

\* C7: after the running flag is cleared, a sender that exists and has not
\* exited eventually exits, whatever the interleaving of the teardown's flag
\* write and broadcast with the sender's test and wait.
C7_SenderExits == (~running /\ spc \notin {"none", "done"}) ~> (spc = "done")

\* the session is Closed, and the sender sleeps on the condition with nobody
\* left to signal it
C7_Witness == variant = 2 /\ mpc = "m_done" /\ spc = "s_waiting" /\ ~sWake

\* C8: on a stream whose audio payloads do not look like a length prefix and
\* whose control lines fit the line buffer, and while the connection delivers
\* data, the framed receivers (v2, v3) are at a
\* frame boundary of the gateway's stream whenever they start to read a frame:
\* every frame before was read whole, also when recv returned less than asked.
C8_FrameAtomic ==
    (/\ variant \in {2, 3} /\ ~(variant = 3 /\ scn = 3) /\ ~(variant = 2 /\ scn = 2)
     /\ rpc = "r_loop" /\ lastRecv = "data") => rpos \in FrameStarts

\* v3 goes to read its next frame in the middle of a control message
C8_Witness ==
    /\ variant = 3 /\ scn = 1 /\ rpc = "r_loop" /\ lastRecv = "data"
    /\ fstart = 0 /\ rpos > 4 /\ rpos < 4 + msgLen

C10_PeekHeuristic ==
    [][ variant = 3 =>
          /\ (rpc = "r_peek" /\ rpc' # rpc /\ RecvResult(4) = 4) =>
                LET v == BE32(SubSeq(Wire, rpos + 1, rpos + 4)) IN
                /\ rpos' = rpos
                /\ rpc' = IF v > 0 /\ v < 1024 /\ v # 320 THEN "r_len" ELSE "r_audio"
          /\ (rpc = "r_ctl" /\ rpc' = "r_loop" /\ lastRecv' = "data") =>
                rpos' = fstart + 4 + BE32(SubSeq(Wire, fstart + 1, fstart + 4))
          /\ (rpc = "r_audio" /\ rpc' = "r_loop") => rpos' = fstart + 320 ]_vars

\* a control message of msgLen bytes was announced and fewer were consumed
C10_Witness ==
    /\ variant = 3 /\ rpc = "r_loop" /\ lastRecv = "data"
    /\ rpos > fstart + 4 /\ rpos < fstart + 4 + msgLen

\* C11: v3, a stream made of audio frames only, each 320 bytes in the relay's
\* own encoding (the raw payload): whatever the first four bytes of a payload
\* are, the receiver never takes the control path, starts every frame at a
\* frame boundary, and every piece it writes to the output buffer is one whole
\* frame of the stream.
C11_AudioRoundTrip ==
    (variant = 3 /\ scn = 3) =>
       /\ rpc \notin {"r_len", "r_ctl"}
       /\ (rpc = "r_loop" /\ lastRecv = "data") => rpos \in FrameStarts
       /\ \A i \in 1..Len(outq) : outq[i][2] = V3_FRAME /\ outq[i][1] \in FrameStarts
       /\ \A i \in 1..Len(played) : played[i][2] = V3_FRAME /\ played[i][1] \in FrameStarts

\* an audio frame that begins 00 00 00 14 is being read as a control message
C11_Witness == variant = 3 /\ scn = 3 /\ rpc = "r_ctl" /\ fstart = 0 /\ msgLen = 20

\* C12: v2, the receiver reads a tag byte that is neither 0x01 nor 0x02: that
\* one byte is consumed, running, the playback queue and the channel are left
\* as they were, and the receiver goes back to the top of its loop, so that the
\* next byte it reads is read as a tag.
C12_UnknownTagSkipped ==
    [][ (/\ variant = 2 /\ rpc = "r_tag" /\ rpc' # rpc
         /\ RecvResult(1) = 1 /\ Wire[rpos + 1] \notin {TAG_AUDIO, TAG_CTRL})
           => /\ rpos' = rpos + 1
              /\ rpc' = "r_loop"
              /\ running' = running /\ outq' = outq
              /\ hangups' = hangups /\ chanReady' = chanReady ]_vars

\* after the unknown tag 0x03 the next byte, 0x02, was read as a tag
C12_Witness ==
    /\ variant = 2 /\ Wire[1] = 3
    /\ rpc = "r_ctl" /\ fstart = 1 /\ rpos = 2 /\ running

\* C13: v2, a control line longer than the 255 bytes the line buffer holds is a
\* recoverable protocol error: the whole line is skipped, nothing of it reaches
\* the playback queue, and the receiver reads its next tag at the first byte of
\* the following frame.
C13_OversizedLineSkipped ==
    (variant = 2 /\ scn = 2) =>
       /\ (rpc = "r_loop" /\ lastRecv = "data") => rpos \in FrameStarts
       /\ \A i \in 1..Len(outq) : outq[i][1] - 1 \in FrameStarts
       /\ \A i \in 1..Len(played) : played[i][1] - 1 \in FrameStarts

\* the 256th byte of the line, 0x01, was read as the tag of an audio frame
C13_Witness == variant = 2 /\ scn = 2 /\ rpc = "r_audio" /\ fstart = CTRL_BUF /\ running

\* C14: v2, the playback queue never holds more than its 100 frames; an audio
\* frame completed while the queue is full is dropped: the queue, its order and
\* running are as before, the frame's bytes are consumed, and the receiver is
\* back at its loop head for the next frame.
C14_QueueBounded ==
    /\ [](variant = 2 => Len(outq) <= QUEUE_CAP)
    /\ [][ (/\ variant = 2 /\ rpc = "r_audio" /\ rpc' = "r_loop"
            /\ Len(outq) = QUEUE_CAP)
              => /\ outq' = outq
                 /\ running' = running
                 /\ rpos' = fstart + 1 + V2_FRAME ]_vars

\* the queue is full, nothing was popped, and the receiver has consumed the
\* frame after the one that filled it
C14_Witness ==
    /\ variant = 2 /\ Len(outq) = QUEUE_CAP /\ played = <<>>
    /\ rpc = "r_loop" /\ running
    /\ rpos = (QUEUE_CAP + 1) * (V2_FRAME + 1)

\* the size the inbound buffer is created with (its max_len argument is 0)
InCapacity == IF variant = 1 THEN IN_START_V1 ELSE IN_START_V2

\* C15: v1 and v2, the bytes held in the inbound buffer never exceed the
\* buffer's capacity: a write that would exceed it waits for the sender, so
\* the occupancy stays bounded while the sender is held in a socket send.
C15_InboundBounded == (variant \in {1, 2} /\ inBuf = "alive") => inOcc <= InCapacity

\* the sender is held in send(), the buffer is within one caller frame of its
\* capacity, and the application thread is about to push the next frame
C15_Witness ==
    /\ variant = 2 /\ spc = "s_send" /\ mpc = "m2_read"
    /\ inOcc + 320 > InCapacity /\ inOcc <= InCapacity

\* the frame the sender worker sends: v1 320 bytes, v2 640 bytes
SenderFrame == IF variant = 1 THEN V1_CHUNK ELSE V2_FRAME

\* C16: v1 and v2, the sender worker takes exactly one full frame from the
\* inbound buffer, and every send it makes carries exactly one full frame,
\* never a part of one.
C16_FullFrameSends ==
    variant \in {1, 2} =>
       /\ spc = "s_send" => bytesRead = SenderFrame
       /\ \A i \in 1..Len(tx) : tx[i].kind = "audio" => tx[i].len = SenderFrame

\* the v1 sender has taken half a frame and is about to send it
C16_Witness == variant = 1 /\ spc = "s_send" /\ bytesRead = 160 /\ inOcc = 0

\* C17: once the handshake is sent, every send on the gateway socket is made by
\* the sending path alone (the sender worker in v1 and v2, the application
\* thread's loop in v3) and every recv by the receiver worker alone: a step
\* that writes is a step of no other thread, and so is a step that reads.
C17_OneWriterOneReader ==
    [][ /\ (tx # <<>> /\ tx' # tx) =>
             /\ rpc' = rpc /\ rxVars' = rxVars
             /\ IF variant = 3
                THEN mpc = "m3_read" /\ spc' = spc
                ELSE spc = "s_send" /\ mpc' = mpc
        /\ (rpos' # rpos \/ lastRecv' # lastRecv) =>
             /\ rpc \in {"r_recv", "r_tag", "r_audio", "r_ctl", "r_peek", "r_len"}
             /\ mpc' = mpc /\ spc' = spc /\ tx' = tx ]_vars

\* v2 in Streaming: the sender has sent a frame and the receiver has read a
\* whole control line
C17_Witness ==
    /\ variant = 2 /\ running /\ Len(tx) >= 2 /\ tx[2].kind = "audio"
    /\ rpc = "r_loop" /\ rpos = 7 /\ fstart = 1

\* the place of a session state in Idle, Connecting, Handshaking, Streaming,
\* Draining, Closed
StateRank(st) ==
    CASE st = "Idle" -> 0 [] st = "Connecting" -> 1 [] st = "Handshaking" -> 2
      [] st = "Streaming" -> 3 [] st = "Draining" -> 4 [] OTHER -> 5

\* C18: the session state only moves forward through Idle, Connecting,
\* Handshaking, Streaming, Draining, Closed; Streaming is entered only after a
\* connect that succeeded and a handshake that was sent successfully; no step
\* leaves Closed.
C18_ForwardOnly ==
    /\ [](SessionState = "Streaming" =>
             (connects = 1 /\ sockState = "open" /\ tx # <<>> /\ tx[1].kind = "hs" /\ tx[1].ok))
    /\ [][StateRank(SessionState') >= StateRank(SessionState)]_vars
    /\ [][SessionState = "Closed" => SessionState' = "Closed"]_vars

\* v1 is in Streaming, workers started, and its handshake was not sent
C18_Witness ==
    /\ variant = 1 /\ SessionState = "Streaming" /\ mpc = "m_loop"
    /\ tx[1].kind = "hs" /\ ~tx[1].ok

\* C19: v1, a second call of nova_session_cleanup on the same session leaves
\* the session as the first call left it: it closes no socket, joins no thread
\* and destroys no buffer.
C19_CleanupIdempotent ==
    [][ (variant = 1 /\ cleanups = 1 /\ cleanups' = 2) =>
           /\ closes' = closes /\ fd' = fd /\ sockState' = sockState
           /\ joins' = joins
           /\ inBuf' = inBuf /\ outBuf' = outBuf
           /\ running' = running ]_vars

\* the second call has returned: both workers have been joined twice, the
\* socket closed once, the buffers destroyed once
C19_Witness ==
    /\ variant = 1 /\ cleanups = 2 /\ joins = 4 /\ closes = 1
    /\ inBuf = "destroyed" /\ outBuf = "destroyed"

\* C20: a session makes at most one connect attempt and opens at most one
\* socket: once setup has reported, or anything was handed to send, no step
\* calls connect or opens a socket again, whatever failed (connect, handshake
\* or stream I/O).
C20_SingleConnect ==
    /\ [](connects <= 1 /\ opens <= 1)
    /\ [][ (initResult # "none" \/ tx # <<>> \/ lastRecv # "none") =>
              (connects' = connects /\ opens' = opens) ]_vars

\* a session that connected, lost the connection while streaming, and has
\* returned
C20_Witness ==
    /\ mpc = "m_done" /\ lastRecv = "err" /\ initResult = "ok"
    /\ connects = 1 /\ opens = 1 /\ closes = 1

\* C21: v3, a caller frame is handed to send only if it is exactly 160 bytes
\* or exactly 320 bytes long, and then 320 bytes are sent; a shorter frame, no
\* frame, or a frame of any other length sends nothing.
C21_ForwardOnlyWholeFrames ==
    [][ (variant = 3 /\ mpc = "m3_read" /\ mpc' # mpc) =>
           IF datalen' \in {160, 320}
           THEN /\ Len(tx') = Len(tx) + 1
                /\ SubSeq(tx', 1, Len(tx)) = tx
                /\ tx'[Len(tx')].kind = "audio"
                /\ tx'[Len(tx')].len = 320
           ELSE tx' = tx ]_vars

\* a frame of 240 bytes was read after the handshake and nothing was sent for it
C21_Witness ==
    /\ variant = 3 /\ mpc = "m3_write" /\ datalen = 240 /\ mediaReady
    /\ Len(tx) = 1 /\ tx[1].kind = "hs"

\* the exponent segment of a sample: the exponent linear2ulaw's loop finds
\* for the magnitude clipped to 32635 and biased
Segment(s) ==
    LET mag == IF s < 0 THEN 0 - s ELSE s
    IN  ExponentOf((IF mag > cClip THEN cClip ELSE mag) + cBias, 7, 16384)

\* C22: for every 16-bit sample s, ulaw2linear(linear2ulaw(s)) differs from s
\* by at most 4 quantization steps of the segment of s (step 8 * 2^e).
C22_RoundTripBound ==
    cpc = "pcm_dec" =>
       /\ pcm - orig <= 4 * 8 * Pow2(Segment(orig))
       /\ orig - pcm <= 4 * 8 * Pow2(Segment(orig))

\* the most negative sample has gone through the encoder and the decoder
C22_Witness == cpc = "pcm_dec" /\ orig = -32768 /\ ulaw = 119 /\ pcm = -64

\* C23: ulaw_to_pcm16 applied to a frame of 160 bytes 0xFF gives a frame of
\* 160 samples (320 bytes), each of them 0, and gives the same frame when it
\* is called again.
C23_GoldenFrame ==
    /\ []((cpc = "frame_dec" /\ ulawFrame = [i \in 1..160 |-> 255]) =>
             (pcmFrame = [i \in 1..160 |-> 0] /\ 2 * Len(pcmFrame) = 320))
    /\ [][ (cpc = "frame_dec" /\ ulawFrame = [i \in 1..160 |-> 255]) =>
              pcmFrame' = pcmFrame ]_vars

\* the frame of 0xFF bytes has been decoded
C23_Witness ==
    /\ cpc = "frame_dec" /\ Len(ulawFrame) = 160 /\ ulawFrame[1] = 255
    /\ Len(pcmFrame) = 160 /\ pcmFrame[160] = 0

\* C28: for every byte u, ulaw2linear(u) is the table-driven expansion: with v
\* the bit-inverse of u, m = v & 0x0F and e = (v >> 4) & 7, the magnitude is
\* exp_lut[e] + (m << (e + 3)), negated when bit 7 of v is set, and is at most
\* 32124, so the conversion to 16 bits changes nothing.
C28_TableExpansion ==
    cpc = "ulaw_dec" =>
       LET v == 255 - orig
           m == v % 16
           e == (v \div 16) % 8
           mag == exp_lut[e + 1] + m * Pow2(e + 3)
       IN  /\ pcm = IF v >= 128 THEN 0 - mag ELSE mag
           /\ mag <= 32124

\* the code word 0x00 has been decoded to the largest magnitude
C28_Witness == cpc = "ulaw_dec" /\ orig = 0 /\ pcm = -32124

\* C29: for every byte u, linear2ulaw(ulaw2linear(u)) = u, except that 0x7F
\* may come back as 0xFF.
C29_EncodeInvertsDecode ==
    cpc = "ulaw_enc" => (ulaw = orig \/ (orig = 127 /\ ulaw = 255))

\* the code word 0xFF has been decoded and encoded again
C29_Witness == cpc = "ulaw_enc" /\ orig = 255 /\ pcm = 0 /\ ulaw = 247

\* C24: v3, a session that has streamed ten frames and then takes from the
\* socket the hangup frame 00 00 00 14 {"type":"hangup"} (21 bytes), with or
\* without bytes after it, has signalled the channel to hang up and cleared
\* running.
C24_Scenario1Hangup ==
    (variant = 3 /\ scn \in {4, 5} /\ rpc = "r_loop" /\ rpos >= 21) =>
       (hangups = 1 /\ ~chanReady /\ ~running)

\* ten frames were sent, the 21 bytes of the hangup frame have all been read,
\* and the receiver is back in its peek with the call still up
C24_Witness ==
    /\ variant = 3 /\ scn = 4 /\ Len(tx) = 11
    /\ arrived = 21 /\ rpos = 21 /\ rpc = "r_peek"
    /\ hangups = 0 /\ chanReady /\ running

\* C25: v2, after the tag byte 0x01 the receiver consumes exactly 320 bytes as
\* the payload of one audio frame: when the payload read ends, the next byte
\* it reads (the next tag) is the one 320 bytes after the payload's start.
C25_AudioPayload320 ==
    [][(variant = 2 /\ rpc = "r_audio" /\ rpc' = "r_loop") =>
          rpos' = fstart + 1 + 320]_vars

\* an audio frame has been read to its end and the receiver is back at the
\* head of its loop, about to read the next tag
C25_Witness ==
    /\ variant = 2 /\ scn = 1 /\ rpc = "r_loop" /\ running
    /\ Wire[fstart + 1] = TAG_AUDIO /\ rpos = fstart + 1 + V2_FRAME

\* C26: v2, every audio frame the relay writes to the socket is the tag byte
\* 0x01 followed by exactly 320 payload bytes (321 bytes in one frame), the
\* format its receiver reads.
C26_TaggedAudioOut ==
    variant = 2 =>
       \A i \in 1..Len(tx) :
          tx[i].kind = "audio" => (tx[i].tagged /\ tx[i].len = 1 + 320)

\* the v2 sender has written an audio frame to the socket
C26_Witness ==
    /\ variant = 2 /\ Len(tx) >= 2
    /\ tx[2].kind = "audio" /\ tx[2].ok /\ tx[2].len = V2_FRAME /\ ~tx[2].tagged

\* C27: in every variant, when the channel has no caller_id_number the caller
\* field of the handshake written to the gateway is the string "Unknown".
C27_UnknownCaller ==
    callerNum = "none" =>
       \A i \in 1..Len(tx) : tx[i].kind = "hs" => tx[i].caller = "Unknown"

\* a v2 session without caller_id_number has written its handshake
C27_Witness ==
    /\ variant = 2 /\ callerNum = "none"
    /\ tx # <<>> /\ tx[1].kind = "hs" /\ tx[1].ok /\ tx[1].caller = "unknown"

\* the positions at which a thread is inside switch_buffer_inuse, _read or
\* _write on the inbound and on the outbound buffer
SenderInBuffer == spc \in {"sl_inuse", "sl_read"}
MediaInInbound == mpc = "tl_in_write"
ReceiverInBuffer == rpc = "rl_write"
MediaInOutbound == mpc = "tl_out_read"

\* C30: every read or write of a shared audio buffer (by a worker or by the
\* telephony side) happens while the thread holds that buffer's mutex; at
\* most one thread is in a buffer's critical section at a time; and no
\* thread holds a buffer mutex while it is blocked in send or recv.
C30_MutexDiscipline ==
    /\ SenderInBuffer => inMutex = "sender"
    /\ MediaInInbound => inMutex = "media"
    /\ ReceiverInBuffer => outMutex = "receiver"
    /\ MediaInOutbound => outMutex = "media"
    /\ ~(spc \in {"sl_inuse", "sl_read", "sl_unlock"} /\ mpc \in {"tl_in_write", "tl_in_unlock"})
    /\ ~(rpc \in {"rl_write", "rl_unlock"} /\ mpc \in {"tl_out_read", "tl_out_unlock"})
    /\ spc = "sl_send" => (inMutex # "sender" /\ outMutex # "sender")
    /\ rpc = "rl_recv" => (inMutex # "receiver" /\ outMutex # "receiver")
    /\ mpc = "tl_send" => (inMutex # "media" /\ outMutex # "media")

\* v1: the sender has come back from its timed wait and reads the inbound
\* buffer while the telephony side waits for the same mutex, and the
\* receiver is blocked in recv
C30_Witness ==
    /\ variant = 1 /\ spc = "sl_read" /\ mpc = "tl_in_lock" /\ rpc = "rl_recv"
    /\ inMutex = "sender" /\ inOcc = V1_CHUNK /\ outMutex = "free"

\* the stream the gateway writes, frame by frame
Stream == IF scn = 0 THEN (IF variant = 2 THEN BurstStream ELSE BurstStream3)
          ELSE Scenarios[variant][scn]

\* the audio frames of the stream as pieces <<offset of the payload, length>>:
\* v2 a tag 0x01 and 640 bytes, v3 320 raw bytes
AudioFrames ==
    LET off(i) == Len(Flatten(SubSeq(Stream, 1, i - 1)))
    IN  IF variant = 2
        THEN {<<off(i) + 1, V2_FRAME>> :
                 i \in {j \in 1..Len(Stream) :
                          Len(Stream[j]) = V2_FRAME + 1 /\ Stream[j][1] = TAG_AUDIO}}
        ELSE {<<off(i), V3_FRAME>> :
                 i \in {j \in 1..Len(Stream) : Len(Stream[j]) = V3_FRAME}}

\* C31: v2 and v3, the frames played to the caller are, in order, a
\* subsequence of the complete audio frames the gateway sent: every played
\* frame is one of them, none is played twice or out of order, and what is
\* still queued comes after everything played.
C31_PlayedSubsequence ==
    variant \in {2, 3} =>
       /\ \A i \in 1..Len(played) : played[i] \in AudioFrames
       /\ \A i, j \in 1..Len(played) : i < j => played[i][1] < played[j][1]
       /\ \A i \in 1..Len(played) : \A j \in 1..Len(outq) : played[i][1] < outq[j][1]

\* v3: the caller was played a frame that begins 24 bytes into the first
\* audio frame of the stream and ends 24 bytes into the second
C31_Witness ==
    /\ variant = 3 /\ scn = 3
    /\ played = << <<24, V3_FRAME>> >>

\* C32: v3, the occupancy of the outbound buffer is always a multiple of 320
\* and at most 32768 bytes: a receiver step adds one frame of 320 bytes or
\* nothing, a step of the application thread removes 320 bytes or nothing,
\* and every frame played is the 320 bytes of one frame the receiver wrote.
C32_WholeFramesBuffered ==
    /\ [](variant = 3 =>
            /\ Bytes(outq) % V3_FRAME = 0
            /\ Bytes(outq) <= OUT_MAX
            /\ \A i \in 1..Len(outq) : outq[i][2] = V3_FRAME
            /\ \A i \in 1..Len(played) : played[i][2] = V3_FRAME)
    /\ [][(variant = 3 /\ outq' # outq) =>
            \/ /\ rpc = "r_audio" /\ got' = 0
               /\ outq' = Append(outq, <<fstart, V3_FRAME>>) /\ played' = played
            \/ /\ mpc = "m3_write" /\ outq # <<>>
               /\ outq' = Tail(outq) /\ played' = Append(played, Head(outq))]_vars

\* the buffer holds 102 frames (32640 bytes), the receiver has read one more
\* frame whole and the buffer took nothing of it
C32_Witness ==
    /\ variant = 3 /\ scn = 0
    /\ Bytes(outq) = (OUT_MAX \div V3_FRAME) * V3_FRAME
    /\ rpos = WireLen /\ rpc = "r_loop" /\ lastRecv = "data" /\ got = 0

\* C33: v3, nothing is written to the caller before the first caller frame of
\* at least 160 bytes has been read: while media_ready is not set nothing has
\* been played and no step takes anything out of the outbound buffer;
\* media_ready is set only by reading such a frame and is never cleared.
C33_MediaReadyGate ==
    /\ []((variant = 3 /\ ~mediaReady) => played = <<>>)
    /\ [][(variant = 3 /\ ~mediaReady) =>
            /\ played' = played
            /\ Len(outq') >= Len(outq)
            /\ mediaReady' => (mpc = "m3_read" /\ datalen' >= PCMU_LEN)]_vars
    /\ [][(variant = 3 /\ mediaReady) => mediaReady']_vars

\* the caller has sent two frames of comfort noise, the application thread
\* has been round its loop, and gateway audio waits in the outbound buffer
C33_Witness ==
    /\ variant = 3 /\ ~mediaReady /\ mpc = "m_loop" /\ running
    /\ callerFrames = 2 /\ datalen = 2
    /\ outq # <<>> /\ played = <<>>

\* C34: on every path through a session, each socket that was opened is
\* closed exactly once: close is called only on a socket that is open (or was
\* opened in the same step of setup), never more often than sockets were
\* opened, and when the session has ended every opened socket is closed.
C34_SocketClosedOnce ==
    /\ [](closes <= opens)
    /\ [](mpc = "m_done" => (closes = opens /\ sockState # "open"))
    /\ [][closes' # closes =>
            /\ closes' = closes + 1
            /\ sockState = "open" \/ opens' = opens + 1
            /\ sockState' = "closed"]_vars

\* v2: the receiver was started, creating the sender failed, and the cleanup
\* has closed the socket and ended the session
C34_Witness ==
    /\ variant = 2 /\ mpc = "m_done" /\ initResult = "ok"
    /\ rpc # "none" /\ spc = "none"
    /\ opens = 1 /\ closes = 1 /\ sockState = "closed"

\* C35: once streaming has started the running flag only goes down: in no
\* step of any thread (sender, receiver, media callback, main loop,
\* teardown) does a cleared flag become set again.
C35_RunningMonotonic ==
    [][(StateRank(SessionState) >= 3 /\ ~running) => ~running']_vars

\* v1 in Streaming: the receiver has cleared running at the gateway's end of
\* stream and ended, the sender has not yet looked at the flag, the media
\* bug is still attached
C35_Witness ==
    /\ variant = 1 /\ SessionState = "Streaming" /\ ~running
    /\ rpc = "done" /\ lastRecv = "eof" /\ spc \notin {"none", "done"}
    /\ bugAttached

====
